---- MODULE Spec2Model ----
(***************************************************************************)
(* pg_streamrecv: the log-streaming receiver (LogStreaming and its         *)
(* helpers in pg_streamrecv.c).  The archive directory and its inprogress  *)
(* subdirectory are the persistent state; one run of the program is a      *)
(* sequence of steps, one per system call that changes a file or talks to  *)
(* the server, so that a kill can fall between any two of them.            *)
(*                                                                         *)
(* File names and WAL positions are kept as the character strings the     *)
(* program builds and parses (sequences of one-character strings).        *)
(* A uint32 is kept as [hi, lo] with value hi * 2^24 + lo, because the     *)
(* model checker's integers are 32-bit signed; with XLogSegSize = 2^24     *)
(* hi is x / XLogSegSize and lo is x % XLogSegSize.                        *)
(***************************************************************************)
EXTENDS Integers, Sequences, FiniteSets, TLC

\* ------------------------------------------------------------------------
\* Program constants
\* ------------------------------------------------------------------------

\* XLOG_SEG_SIZE of the PostgreSQL 9.0 headers the program is built with.
XLogSegSize == 16777216

\* the 24 bytes of the header without the byte of the message type
STREAMING_HEADER_SIZE_NoTag == 8 + 8 + 8

\* (1+8+8+8): tag byte, start position, end position, send time.
STREAMING_HEADER_SIZE == 25

\* ((uint32) 0xffffffff) / XLogSegSize
XLogSegsPerFile == 255

\* Number of values of the top byte of a uint32 (2^32 / XLogSegSize).
HiRange == XLogSegsPerFile + 1

\* ------------------------------------------------------------------------
\* Characters and hexadecimal text
\* ------------------------------------------------------------------------

UpperHex == <<"0","1","2","3","4","5","6","7","8","9","A","B","C","D","E","F">>
LowerHex == <<"0","1","2","3","4","5","6","7","8","9","a","b","c","d","e","f">>

\* a test that lets lower-case digits through
ISHEX_AnyCase(x) == \E i \in 1..16 : UpperHex[i] = x \/ LowerHex[i] = x

\* #define ISHEX(x) ((x >= '0' && x <= '9') || (x >= 'A' && x <= 'F'))
ISHEX(x) == \E i \in 1..16 : UpperHex[i] = x

\* What scanf's %X accepts as a digit: either case.
IsXDigit(x) == \E i \in 1..16 : UpperHex[i] = x \/ LowerHex[i] = x

XDigitVal(x) == (CHOOSE i \in 1..16 : UpperHex[i] = x \/ LowerHex[i] = x) - 1

\* uint32 values
U32(h, l) == [hi |-> h, lo |-> l]
U32Of(n) == U32(n \div XLogSegSize, n % XLogSegSize)
U32Zero == U32(0, 0)

\* x + 1 in uint32 arithmetic
U32Inc(x) ==
    IF x.lo + 1 < XLogSegSize THEN U32(x.hi, x.lo + 1)
    ELSE U32((x.hi + 1) % HiRange, 0)

\* x - y in uint32 arithmetic
U32Sub(x, y) ==
    IF x.lo >= y.lo THEN U32((x.hi - y.hi + HiRange) % HiRange, x.lo - y.lo)
    ELSE U32((x.hi - y.hi - 1 + 2 * HiRange) % HiRange, x.lo + XLogSegSize - y.lo)

\* x % XLogSegSize and x / XLogSegSize, as C ints
U32ModSeg(x) == x.lo
U32DivSeg(x) == x.hi

\* x * XLogSegSize in uint32 arithmetic: the product keeps the low 8 bits of x
U32MulSeg(x) == U32(x.lo % HiRange, 0)

\* x >= n for a small constant n
U32Geq(x, n) == x.hi > 0 \/ x.lo >= n

RECURSIVE HexDigitsOf(_, _)
\* the k low hexadecimal digits of n, most significant first
HexDigitsOf(n, k) ==
    IF k = 0 THEN <<>>
    ELSE Append(HexDigitsOf(n \div 16, k - 1), UpperHex[(n % 16) + 1])

\* printf("%08X", x)
Fmt08X(x) == HexDigitsOf(x.hi, 2) \o HexDigitsOf(x.lo, 6)

RECURSIVE StripZeros(_)
StripZeros(s) ==
    IF Len(s) > 1 /\ Head(s) = "0" THEN StripZeros(Tail(s)) ELSE s

\* printf("%X", x)
FmtX(x) == StripZeros(Fmt08X(x))

RECURSIVE HexValue(_)
\* value of a string of at most 6 hexadecimal digits
HexValue(s) ==
    IF s = <<>> THEN 0
    ELSE 16 * HexValue(SubSeq(s, 1, Len(s) - 1)) + XDigitVal(s[Len(s)])

\* the uint32 a run of 1..8 hexadecimal digits denotes
ParseHex32(s) ==
    LET n == Len(s) IN
    IF n <= 6 THEN U32(0, HexValue(s))
    ELSE U32(HexValue(SubSeq(s, 1, n - 6)), HexValue(SubSeq(s, n - 5, n)))

RECURSIVE XDigitRun(_, _)
\* length of the longest run of hexadecimal digits of s starting at index i
XDigitRun(s, i) ==
    IF i <= Len(s) /\ IsXDigit(s[i]) THEN 1 + XDigitRun(s, i + 1) ELSE 0

\* the log and the segment in each other's place
XLogFileName_Swapped(tli, log, seg) == Fmt08X(tli) \o Fmt08X(seg) \o Fmt08X(log)

\* snprintf(fname, MAXFNAMELEN, "%08X%08X%08X", tli, log, seg)
XLogFileName(tli, log, seg) == Fmt08X(tli) \o Fmt08X(log) \o Fmt08X(seg)

\* sscanf(fname, "%08X%08X%08X", tli, log, seg) on a 24-digit name
XLogFromFileName(fname) ==
    [tli |-> ParseHex32(SubSeq(fname, 1, 8)),
     log |-> ParseHex32(SubSeq(fname, 9, 16)),
     seg |-> ParseHex32(SubSeq(fname, 17, 24))]

\* the step that carries only after segment XLogSegsPerFile
NextLogSeg_AtOverflow(log, seg) ==
    IF U32Geq(seg, XLogSegsPerFile)
    THEN [log |-> U32Inc(log), seg |-> U32Zero]
    ELSE [log |-> log, seg |-> U32Inc(seg)]

\* NextLogSeg(logId, logSeg)
\* (access/xlog_internal.h, PostgreSQL 9.0)
NextLogSeg(log, seg) ==
    IF U32Geq(seg, XLogSegsPerFile - 1)
    THEN [log |-> U32Inc(log), seg |-> U32Zero]
    ELSE [log |-> log, seg |-> U32Inc(seg)]

Slash == <<"/">>

\* the conversion that always steps to the next segment
filename_to_logpos_Next(filename, add_segment) ==
    LET f == XLogFromFileName(filename)
        n == NextLogSeg(f.log, f.seg)
    IN  FmtX(n.log) \o Slash \o FmtX(U32MulSeg(n.seg))

\* filename_to_logpos: the "%X/%X" text of the segment start
filename_to_logpos(filename, add_segment) ==
    LET f == XLogFromFileName(filename)
        n == IF add_segment THEN NextLogSeg(f.log, f.seg)
                            ELSE [log |-> f.log, seg |-> f.seg]
    IN  FmtX(n.log) \o Slash \o FmtX(U32MulSeg(n.seg))


\* ------------------------------------------------------------------------
\* Bounds of the model and the inputs drawn from the environment
\* ------------------------------------------------------------------------

\* runs of the program in one behaviour (the first one and the restarts)
MaxRuns == 2

\* data messages received over all runs of one behaviour
MaxFrames == 3

HalfSeg == XLogSegSize \div 2

NoName == <<>>
SaveSuffix == <<".", "s", "a", "v", "e">>

SegName(t, l, n) == XLogFileName(U32Of(t), U32Of(l), U32Of(n))

\* A size in bytes (st_size of a file, or a variable that holds one) is kept
\* as the range [min, max] of the values it can have.  min = max for every
\* size but that of a file whose last write() did not store its whole buffer:
\* how many bytes of the buffer such a write stores is not fixed, and the
\* size of the file is then any of min..max.
Exactly(n) == [min |-> n, max |-> n]

\* a directory entry: a regular file of some size, or something else
RegFile(sz) == [type |-> "reg", size |-> Exactly(sz), durable |-> FALSE]
FullFile == [type |-> "reg", size |-> Exactly(XLogSegSize), durable |-> TRUE]
DirEntry == [type |-> "dir", size |-> Exactly(0), durable |-> FALSE]
\* a symbolic link whose target is missing: stat() of it fails
DanglingLink == [type |-> "dangling", size |-> Exactly(0), durable |-> FALSE]

EmptyDir == [n \in {} |-> DirEntry]

LowerName == <<"0","0","0","0","0","0","0","1","0","0","0","0","0","0","0","0",
               "0","0","0","0","0","0","0","a">>
JunkName == <<"f", "o", "o">>

Partial9 == SegName(1, 0, 9)

\* segments 7 and 8 and two entries that are not segments
ArchiveMixed ==
    (SegName(1, 0, 7) :> FullFile) @@ (SegName(1, 0, 8) :> FullFile)
        @@ (LowerName :> RegFile(5)) @@ ((Partial9 \o SaveSuffix) :> RegFile(5))

\* segment 8 of timeline 1 and segment 7 of timeline 2
ArchiveTimelines ==
    (SegName(1, 0, 8) :> FullFile) @@ (SegName(2, 0, 7) :> FullFile)

\* segments 8 and 9, both complete
ArchiveTwo ==
    (SegName(1, 0, 8) :> FullFile) @@ (SegName(1, 0, 9) :> FullFile)

\* what basedir holds when the program is first started: inprogress/ (absent,
\* a directory or something else), its entries, and the archived files; every
\* segment in the archive directory is complete
InitDirs ==
    { [inprogdir |-> d, inprogress |-> EmptyDir, archive |-> EmptyDir] :
          d \in {"absent", "dir", "file"} }
    \cup
    { [inprogdir |-> "dir", inprogress |-> EmptyDir, archive |-> a] :
          a \in { SegName(1, 0, 8) :> FullFile, ArchiveMixed,
                  SegName(1, 0, 254) :> FullFile, ArchiveTimelines,
                  ArchiveTwo } }
    \cup
    { [inprogdir |-> "dir", inprogress |-> Partial9 :> RegFile(HalfSeg), archive |-> a] :
          a \in { EmptyDir, SegName(1, 0, 8) :> FullFile } }
    \cup
    { [inprogdir |-> "dir", inprogress |-> i, archive |-> SegName(1, 0, 8) :> FullFile] :
          i \in { Partial9 :> RegFile(XLogSegSize),
                  (Partial9 \o SaveSuffix) :> RegFile(HalfSeg),
                  JunkName :> RegFile(3),
                  LowerName :> RegFile(HalfSeg),
                  Partial9 :> DirEntry,
                  Partial9 :> DanglingLink,
                  (Partial9 :> RegFile(HalfSeg)) @@ (JunkName :> DirEntry) } }

\* answers of SELECT pg_current_xlog_location()
ServerPositions ==
    { <<"0", "/", "9", "0", "0", "0", "0", "0", "0">>,
      <<"0", "/", "9", "A", "B", "C", "D", "E", "F">>,
      <<" ", "0", "x", "0", "/", "+", "9", "0", "0", "0", "0", "0", "0">>,
      <<"z", "z">> }

\* timeline column of IDENTIFY_SYSTEM
Timelines == {1}

\* (xlogid, xrecoff / XLogSegSize) of the start position of a data message
FramePositions == { <<0, 9>>, <<0, 10>> }

\* xrecoff % XLogSegSize of a data message, besides the contiguous one
FrameOffsets == {0, 8}

\* return values of PQgetCopyData for a message (its length in bytes)
MsgLens == { STREAMING_HEADER_SIZE,
             STREAMING_HEADER_SIZE + 1,
             STREAMING_HEADER_SIZE + HalfSeg }

MsgTags == {"w", "k"}

NoFrame == [r |-> 0, tag |-> "", startpoint |-> [xlogid |-> U32Zero, xrecoff |-> U32Zero]]

\* PQresultStatus of the result that follows the end of the copy stream
ResultStatuses == {"PGRES_COMMAND_OK", "PGRES_FATAL_ERROR"}

\* nothing received yet
NoMsg == [r |-> 0, tag |-> "", startpoint |-> NoFrame.startpoint, status |-> "none"]

\* ------------------------------------------------------------------------
\* State
\* ------------------------------------------------------------------------
VARIABLES
    archive,                  \* basedir: entry name -> entry (inprogress/ apart)
    inprogdir,                \* what basedir/inprogress is: "absent", "dir", "file"
    inprogress,               \* basedir/inprogress: entry name -> entry
    pc,                       \* position of the process in LogStreaming
    exitcode,                 \* -1 while running; 0, 1 from exit; 137 when killed
    diag,                     \* which error message was printed before exit(1)
    run,                      \* how many times the program was started
    nframes,                  \* data messages received so far
    filename,                 \* get_streaming_start_point: the entry found
    current_xlog,             \* LogStreaming: position string, NoName for NULL
    timeline,
    current_walfile_name,
    remove_when_passed_name,  \* name of the .save file in inprogress/, NoName for NULL
    remove_when_passed_size,  \* st_size of that file, as a range (see Exactly)
    walfile,                  \* -1 or the descriptor returned by open_walfile
    walpos,                   \* lseek(walfile, 0, SEEK_CUR)
    copybuf,                  \* the message being processed
    conns,                    \* history: connections opened in this run
    sentpos,                  \* history: argument of START_REPLICATION of this run
    savemade,                 \* history: [name, size] of the .save made in this run;
                              \* the size is the range the comparisons made with
                              \* remove_when_passed_size so far leave for it
    passed,                   \* history: write offset has exceeded remove_when_passed_size
    rolled,                   \* history: names that passed the rollover size check in this run
    published,                \* history: renames into the archive, all runs
    opened,                   \* history: segment files created, all runs
    lastmsg,                  \* history: what PQgetCopyData last returned in this run
    paysum,                   \* history: payload bytes written to the open file
    rollops,                  \* history: file operations done for the current message
    stream                    \* history: the messages accepted so far, all runs
                              \* (kept in the specifications that start from Recording)

fsVars == <<archive, inprogdir, inprogress>>
memVars == <<filename, current_xlog, timeline, current_walfile_name,
             remove_when_passed_name, remove_when_passed_size,
             walfile, walpos, copybuf>>
histVars == <<conns, sentpos, savemade, passed, rolled, published, opened,
              lastmsg, paysum, rollops, stream>>
vars == <<fsVars, pc, exitcode, diag, run, nframes, memVars, histVars>>

\* no message accepted yet, no run killed; rec tells whether the history of
\* the messages is kept at all
NoStream == [rec |-> FALSE, segs |-> {}, contiguous |-> TRUE, killed |-> FALSE,
             killrun |-> 0]
Recording == [NoStream EXCEPT !.rec = TRUE]

MemInit ==
    /\ filename = NoName
    /\ current_xlog = NoName
    /\ timeline = 0
    /\ current_walfile_name = NoName
    /\ remove_when_passed_name = NoName
    /\ remove_when_passed_size = Exactly(0)
    /\ walfile = -1
    /\ walpos = 0
    /\ copybuf = NoFrame

\* the state after construction, the history of the messages apart
InitBut ==
    /\ \E d \in InitDirs :
         /\ archive = d.archive
         /\ inprogress = d.inprogress
         /\ inprogdir = d.inprogdir
    /\ pc = "start"
    /\ exitcode = -1
    /\ diag = "none"
    /\ run = 1
    /\ nframes = 0
    /\ MemInit
    /\ conns = <<>>
    /\ sentpos = NoName
    /\ savemade = NoName
    /\ passed = FALSE
    /\ rolled = {}
    /\ published = {}
    /\ opened = {}
    /\ lastmsg = NoMsg
    /\ paysum = 0
    /\ rollops = <<>>

Init == InitBut /\ stream = NoStream

\* exit(code) after printing message d: the process and its memory are gone
Exit(code, d) ==
    /\ pc' = "exited"
    /\ exitcode' = code
    /\ diag' = d
    /\ filename' = NoName
    /\ current_xlog' = NoName
    /\ timeline' = 0
    /\ current_walfile_name' = NoName
    /\ remove_when_passed_name' = NoName
    /\ remove_when_passed_size' = Exactly(0)
    /\ walfile' = -1
    /\ walpos' = 0
    /\ copybuf' = NoFrame

Goto(l) == pc' = l /\ UNCHANGED <<exitcode, diag>>

\* ------------------------------------------------------------------------
\* LogStreaming: the inprogress directory
\* ------------------------------------------------------------------------
\* whether stat() of an entry succeeds: never on a missing one, and on an
\* existing one it can still fail (a directory on the way cannot be searched)
StatResults(kind) == IF kind = "absent" THEN {FALSE} ELSE {TRUE, FALSE}

\* the test that inprogress is a directory left out
EnsureInprogress_NoDirCheck ==
    /\ pc = "start"
    /\ UNCHANGED <<archive, inprogress, run, nframes, histVars>>
    /\ \E statok \in StatResults(inprogdir) :
         IF ~statok
         THEN \/ /\ inprogdir = "absent"
                 /\ inprogdir' = "dir"
                 /\ Goto("scan")
                 /\ UNCHANGED memVars
              \/ /\ UNCHANGED inprogdir
                 /\ Exit(1, "mkdir_failed")
         ELSE /\ UNCHANGED inprogdir
              /\ IF inprogdir # "dir"
                 THEN Goto("scan") /\ UNCHANGED memVars
                 ELSE Goto("scan") /\ UNCHANGED memVars

\* stat() of inprogress; any failure counts as "not there" and leads to
\* mkdir(), which creates the directory only where nothing is in its place
EnsureInprogress ==
    /\ pc = "start"
    /\ UNCHANGED <<archive, inprogress, run, nframes, histVars>>
    /\ \E statok \in StatResults(inprogdir) :
         IF ~statok
         THEN \/ /\ inprogdir = "absent"
                 /\ inprogdir' = "dir"
                 /\ Goto("scan")
                 /\ UNCHANGED memVars
              \/ /\ UNCHANGED inprogdir
                 /\ Exit(1, "mkdir_failed")
         ELSE /\ UNCHANGED inprogdir
              /\ IF inprogdir # "dir"
                 THEN Exit(1, "not_a_directory")
                 ELSE Goto("scan") /\ UNCHANGED memVars

\* ------------------------------------------------------------------------
\* get_streaming_start_point
\* ------------------------------------------------------------------------

\* the orders in which readdir can return a set of entries
ReaddirOrders(names) ==
    { o \in [1..Cardinality(names) -> names] :
        \A i, j \in 1..Cardinality(names) : o[i] = o[j] => i = j }

AllHex(name) == \A i \in 1..Len(name) : ISHEX(name[i])

\* the loop without its test for a second entry: the last regular file wins
RECURSIVE ReadInprogress_NoCount(_, _, _, _)
ReadInprogress_NoCount(dir, order, found, nostat) ==
    IF order = <<>> THEN [err |-> "none", filename |-> found]
    ELSE IF Head(order) \in nostat \/ dir[Head(order)].type = "dangling"
         THEN [err |-> "stat_failed", filename |-> found]
    ELSE IF dir[Head(order)].type # "reg"
         THEN [err |-> "non_file_entry", filename |-> found]
    ELSE ReadInprogress_NoCount(dir, Tail(order), Head(order), nostat)

\* the readdir loop over inprogress/: the single regular file, or an error;
\* nostat holds the entries on which stat() fails although they are there
RECURSIVE ReadInprogress(_, _, _, _)
ReadInprogress(dir, order, found, nostat) ==
    IF order = <<>> THEN [err |-> "none", filename |-> found]
    ELSE IF found # NoName THEN [err |-> "more_than_one_file", filename |-> found]
    ELSE IF Head(order) \in nostat \/ dir[Head(order)].type = "dangling"
         THEN [err |-> "stat_failed", filename |-> found]
    ELSE IF dir[Head(order)].type # "reg"
         THEN [err |-> "non_file_entry", filename |-> found]
    ELSE ReadInprogress(dir, Tail(order), Head(order), nostat)

\* the classification without the branch for a 29-character name
ClassifyInprogress_NoSave(fn) ==
    IF Len(fn) = 24
    THEN IF \A i \in 1..Len(fn) : ISHEX(fn[i]) THEN "partial" ELSE "unknown_file"
    ELSE "unknown_file"

\* what the file found in inprogress/ is
ClassifyInprogress(fn) ==
    IF Len(fn) = 24
    THEN IF AllHex(fn) THEN "partial" ELSE "unknown_file"
    ELSE IF Len(fn) = 29 /\ SubSeq(fn, 25, 29) = SaveSuffix THEN "stale_save"
    ELSE "unknown_file"

\* character codes of the characters that occur in entry names
CharCode(c) ==
    IF \E i \in 1..10 : UpperHex[i] = c
    THEN 47 + (CHOOSE i \in 1..10 : UpperHex[i] = c)
    ELSE IF \E i \in 11..16 : UpperHex[i] = c
    THEN 54 + (CHOOSE i \in 11..16 : UpperHex[i] = c)
    ELSE IF \E i \in 11..16 : LowerHex[i] = c
    THEN 86 + (CHOOSE i \in 11..16 : LowerHex[i] = c)
    ELSE IF c = "." THEN 46
    ELSE 110

RECURSIVE strcmp_Reversed(_, _)
\* the comparison with its arguments in each other's place
strcmp_Reversed(a, b) ==
    IF a = <<>> /\ b = <<>> THEN 0
    ELSE IF a = <<>> THEN 1
    ELSE IF b = <<>> THEN -1
    ELSE IF CharCode(Head(a)) < CharCode(Head(b)) THEN 1
    ELSE IF CharCode(Head(a)) > CharCode(Head(b)) THEN -1
    ELSE strcmp_Reversed(Tail(a), Tail(b))

RECURSIVE strcmp(_, _)
\* sign of strcmp(a, b)
strcmp(a, b) ==
    IF a = <<>> /\ b = <<>> THEN 0
    ELSE IF a = <<>> THEN -1
    ELSE IF b = <<>> THEN 1
    ELSE IF CharCode(Head(a)) < CharCode(Head(b)) THEN -1
    ELSE IF CharCode(Head(a)) > CharCode(Head(b)) THEN 1
    ELSE strcmp(Tail(a), Tail(b))

\* the readdir loop over the archive directory: the highest segment name
RECURSIVE ReadArchive(_, _)
ReadArchive(order, buf) ==
    IF order = <<>> THEN buf
    ELSE LET d == Head(order) IN
         IF Len(d) # 24 THEN ReadArchive(Tail(order), buf)
         ELSE IF ~AllHex(d) THEN ReadArchive(Tail(order), buf)
         ELSE IF buf # <<>>
              THEN IF strcmp(d, buf) > 0 THEN ReadArchive(Tail(order), d)
                   ELSE ReadArchive(Tail(order), buf)
         ELSE ReadArchive(Tail(order), d)

InprogressName == <<"i", "n", "p", "r", "o", "g", "r", "e", "s", "s">>

\* the entries readdir returns for basedir (. and .. are skipped by the loop)
ArchiveEntries ==
    DOMAIN archive \cup (IF inprogdir = "absent" THEN {} ELSE {InprogressName})

RemoveEntry(dir, name) == [n \in (DOMAIN dir) \ {name} |-> dir[n]]

\* a rename that leaves the source in place (link without unlink)
RenameEntry_Copy(dir, src, dest) == (dest :> dir[src]) @@ dir

\* rename(2) inside one directory
RenameEntry(dir, src, dest) ==
    (dest :> dir[src]) @@ RemoveEntry(RemoveEntry(dir, src), dest)

\* first part: the scan of inprogress/ up to the decision
ScanInprogress ==
    /\ pc = "scan"
    /\ UNCHANGED <<fsVars, run, nframes, histVars>>
    /\ \/ Exit(1, "opendir_failed")
       \/ \E order \in ReaddirOrders(DOMAIN inprogress),
             nostat \in SUBSET DOMAIN inprogress :
            LET res == ReadInprogress(inprogress, order, NoName, nostat) IN
            IF res.err # "none" THEN Exit(1, res.err)
            ELSE IF res.filename = NoName
                 THEN Goto("scan_archive") /\ UNCHANGED memVars
            ELSE IF ClassifyInprogress(res.filename) = "partial"
                 THEN /\ Goto("save_rename")
                      /\ filename' = res.filename
                      /\ UNCHANGED <<current_xlog, timeline, current_walfile_name,
                                     remove_when_passed_name, remove_when_passed_size,
                                     walfile, walpos, copybuf>>
            ELSE Exit(1, ClassifyInprogress(res.filename))

\* the partial segment is saved away and its size recorded
SavePartial ==
    /\ pc = "save_rename"
    /\ UNCHANGED <<archive, inprogdir, run, nframes, conns, sentpos, passed,
                   rolled, published, opened, stream, lastmsg, paysum, rollops>>
    /\ LET dest == filename \o SaveSuffix IN
       \/ /\ UNCHANGED <<inprogress, savemade>>
          /\ Exit(1, "rename_failed")
       \/ /\ inprogress' = RenameEntry(inprogress, filename, dest)
          /\ savemade' = [name |-> dest, size |-> inprogress[filename].size]
          /\ \/ Exit(1, "stat_failed")
             \/ /\ remove_when_passed_name' = dest
                /\ remove_when_passed_size' = inprogress'[dest].size
                /\ current_xlog' = filename_to_logpos(filename, FALSE)
                /\ Goto("connect")
                /\ UNCHANGED <<filename, timeline, current_walfile_name,
                               walfile, walpos, copybuf>>

\* second part: no file in inprogress/, look at the archive directory
ScanArchive ==
    /\ pc = "scan_archive"
    /\ UNCHANGED <<fsVars, run, nframes, histVars>>
    /\ \/ Exit(1, "opendir_failed")
       \/ /\ \E order \in ReaddirOrders(ArchiveEntries) :
               LET buf == ReadArchive(order, <<>>) IN
               IF buf # <<>>
               THEN /\ current_xlog' = filename_to_logpos(buf, TRUE)
                    /\ Goto("connect")
               ELSE /\ current_xlog' = NoName
                    /\ Goto("query")
          /\ UNCHANGED <<filename, timeline, current_walfile_name,
                         remove_when_passed_name, remove_when_passed_size,
                         walfile, walpos, copybuf>>

\* ------------------------------------------------------------------------
\* LogStreaming: session setup
\* ------------------------------------------------------------------------

\* connect_server with the two database names exchanged
ConnKind_Swapped(replication) == IF replication THEN "plain" ELSE "replication"

\* connect_server(replication): which kind of connection is opened
ConnKind(replication) == IF replication THEN "replication" ELSE "plain"

\* current_xlog == NULL: ask the server for its current position
QueryPosition ==
    /\ pc = "query"
    /\ UNCHANGED <<fsVars, run, nframes, sentpos, savemade, passed, rolled,
                   published, opened, stream, lastmsg, paysum, rollops>>
    /\ conns' = Append(conns, ConnKind(FALSE))
    /\ \/ Exit(1, "connect_failed")
       \/ Exit(1, "query_failed")
       \/ /\ \E p \in ServerPositions : current_xlog' = p
          /\ Goto("connect")
          /\ UNCHANGED <<filename, timeline, current_walfile_name,
                         remove_when_passed_name, remove_when_passed_size,
                         walfile, walpos, copybuf>>

ConnectReplication ==
    /\ pc = "connect"
    /\ UNCHANGED <<fsVars, run, nframes, sentpos, savemade, passed, rolled,
                   published, opened, stream, lastmsg, paysum, rollops>>
    /\ conns' = Append(conns, ConnKind(TRUE))
    /\ \/ Exit(1, "connect_failed")
       \/ Goto("identify") /\ UNCHANGED memVars

IdentifySystemOn(tlis) ==
    /\ pc = "identify"
    /\ UNCHANGED <<fsVars, run, nframes, histVars>>
    /\ \/ Exit(1, "identify_failed")
       \/ /\ \E t \in tlis : timeline' = t
          /\ Goto("start_streaming")
          /\ UNCHANGED <<filename, current_xlog, current_walfile_name,
                         remove_when_passed_name, remove_when_passed_size,
                         walfile, walpos, copybuf>>

IdentifySystem == IdentifySystemOn(Timelines)

\* the vertical tab (character 11): it has no escape and stands as itself
VTab == ""

\* the characters isspace() accepts
WhiteSpace == {" ", "\t", "\n", VTab, "\f", "\r"}

RECURSIVE SkipSpace(_, _)
\* index of the first character of s at or after i that is not white space
SkipSpace(s, i) ==
    IF i <= Len(s) /\ s[i] \in WhiteSpace THEN SkipSpace(s, i + 1) ELSE i

\* 0 - x in uint32 arithmetic
U32Neg(x) == U32Sub(U32Zero, x)

U32Max == U32(HiRange - 1, XLogSegSize - 1)

\* the unsigned int a run of hexadecimal digits is stored as: the C library
\* converts it as an unsigned long (ULONG_MAX when it does not fit in 64
\* bits), applies the sign, and the store keeps the low 32 bits
HexRunValue(d, neg) ==
    LET z == StripZeros(d)
        low == IF Len(z) > 8 THEN SubSeq(z, Len(z) - 7, Len(z)) ELSE z
    IN  IF d = <<>> THEN U32Zero
        ELSE IF Len(z) > 16 THEN U32Max
        ELSE IF neg THEN U32Neg(ParseHex32(low))
        ELSE ParseHex32(low)

\* one %X conversion of sscanf starting at index i of s: white space is
\* skipped, then an optional sign, an optional 0x or 0X, and the digits; "eof"
\* when the input ends before anything is read, "fail" when no number is there
ScanX(s, i) ==
    LET j == SkipSpace(s, i)
        signed == j <= Len(s) /\ s[j] \in {"+", "-"}
        neg == j <= Len(s) /\ s[j] = "-"
        k == IF signed THEN j + 1 ELSE j
        prefixed == k + 1 <= Len(s) /\ s[k] = "0" /\ s[k + 1] \in {"x", "X"}
        d == IF prefixed THEN k + 2 ELSE k
        nd == XDigitRun(s, d)
    IN  IF j > Len(s) THEN [st |-> "eof", val |-> U32Zero, next |-> j]
        ELSE IF ~prefixed /\ nd = 0 THEN [st |-> "fail", val |-> U32Zero, next |-> j]
        ELSE [st |-> "ok", val |-> HexRunValue(SubSeq(s, d, d + nd - 1), neg),
              next |-> d + nd]

\* sscanf(xlogpos, "%X/%X", &uxlogid, &uxrecoff): n is its return value
ScanPosition(s) ==
    LET a == ScanX(s, 1) IN
    IF a.st = "eof" THEN [n |-> -1, uxlogid |-> U32Zero, uxrecoff |-> U32Zero]
    ELSE IF a.st = "fail" THEN [n |-> 0, uxlogid |-> U32Zero, uxrecoff |-> U32Zero]
    ELSE IF a.next > Len(s) \/ s[a.next] # "/"
    THEN [n |-> 1, uxlogid |-> a.val, uxrecoff |-> U32Zero]
    ELSE LET b == ScanX(s, a.next + 1) IN
         IF b.st # "ok"
         THEN [n |-> 1, uxlogid |-> a.val, uxrecoff |-> U32Zero]
         ELSE [n |-> 2, uxlogid |-> a.val, uxrecoff |-> b.val]

\* start_streaming without the rounding to the start of the segment
start_streaming_NoRound(xlogpos) ==
    LET p == ScanPosition(xlogpos)
    IN  IF p.n # 2 THEN [ok |-> FALSE, pos |-> NoName]
        ELSE [ok |-> TRUE, pos |-> FmtX(p.uxlogid) \o Slash \o FmtX(p.uxrecoff)]

\* the position start_streaming puts in its START_REPLICATION command
start_streaming(xlogpos) ==
    LET p == ScanPosition(xlogpos)
        off == IF U32ModSeg(p.uxrecoff) # 0
               THEN U32Sub(p.uxrecoff, U32Of(U32ModSeg(p.uxrecoff)))
               ELSE p.uxrecoff
    IN  IF p.n # 2 THEN [ok |-> FALSE, pos |-> NoName]
        ELSE [ok |-> TRUE, pos |-> FmtX(p.uxlogid) \o Slash \o FmtX(off)]

StartStreaming ==
    /\ pc = "start_streaming"
    /\ UNCHANGED <<fsVars, run, nframes, conns, savemade, passed, rolled,
                   published, opened, stream, lastmsg, paysum, rollops>>
    /\ LET st == start_streaming(current_xlog) IN
       IF ~st.ok THEN Exit(1, "invalid_xlog_format") /\ UNCHANGED sentpos
       ELSE /\ sentpos' = st.pos
            /\ \/ Exit(1, "start_failed")
               \/ Goto("recv") /\ UNCHANGED memVars

\* ------------------------------------------------------------------------
\* LogStreaming: the receive loop
\* ------------------------------------------------------------------------

\* a lax size test: any size up to a whole segment passes
SegmentComplete_AtMost(pos) == pos <= XLogSegSize

\* the old file may be closed and moved: lseek(walfile, 0, SEEK_CUR) == XLogSegSize
SegmentComplete(pos) == pos = XLogSegSize

\* the position test left out: every offset is taken
PositionMatches_Any(pos, xlogoff) == pos >= 0 /\ xlogoff >= 0

\* not a new segment: lseek(walfile, 0, SEEK_CUR) == xlogoff
PositionMatches(pos, xlogoff) == pos = xlogoff

\* the test of the message type left out
FrameDiag_AnyType(r, tag) ==
    IF r < STREAMING_HEADER_SIZE + 1 THEN "short_block"
    ELSE IF tag = "" THEN "invalid_type"
    ELSE "none"

\* the two tests on a received message: its length, then its first byte
FrameDiag(r, tag) ==
    IF r < STREAMING_HEADER_SIZE + 1 THEN "short_block"
    ELSE IF tag # "w" THEN "invalid_type"
    ELSE "none"

\* the test for the start of a segment left out
AtBoundary_Any(xlogoff) == xlogoff >= 0

\* no current walfile: the message has to start a segment
AtBoundary(xlogoff) == xlogoff = 0

\* the position len bytes after sp (a log file has XLogSegsPerFile segments)
AdvancePos(sp, len) ==
    LET lo == sp.xrecoff.lo + len
        hi == sp.xrecoff.hi + lo \div XLogSegSize
    IN  IF hi >= XLogSegsPerFile
        THEN [xlogid |-> U32Inc(sp.xlogid),
              xrecoff |-> U32(hi - XLogSegsPerFile, lo % XLogSegSize)]
        ELSE [xlogid |-> sp.xlogid, xrecoff |-> U32(hi, lo % XLogSegSize)]

\* where the next message starts when the server sends the stream it was
\* asked for: at the position sent, then after the payload of the last message
ExpectedStart(sent, last) ==
    IF last.r = 0
    THEN [xlogid |-> ScanPosition(sent).uxlogid,
          xrecoff |-> ScanPosition(sent).uxrecoff]
    ELSE AdvancePos(last.startpoint, last.r - STREAMING_HEADER_SIZE)

\* PQgetCopyData returned a message of r bytes: checks up to the file operation
RecvData ==
    /\ pc = "recv"
    /\ nframes < MaxFrames
    /\ nframes' = nframes + 1
    /\ UNCHANGED <<fsVars, run, conns, sentpos, savemade, passed, published, opened,
                   paysum>>
    /\ rollops' = <<>>
    /\ \E r \in MsgLens, tag \in MsgTags, p \in FramePositions,
          off \in FrameOffsets \cup
                  (IF walfile > -1 /\ walpos < XLogSegSize THEN {walpos} ELSE {}) :
         LET startpoint == [xlogid |-> U32Of(p[1]), xrecoff |-> U32(p[2], off)]
             xlogoff == U32ModSeg(startpoint.xrecoff)
             accept(l) ==
                 /\ copybuf' = [r |-> r, tag |-> tag, startpoint |-> startpoint]
                 /\ Goto(l)
                 /\ stream' = IF ~stream.rec THEN stream
                               ELSE [stream EXCEPT
                        !.segs = @ \cup
                            {XLogFileName(U32Of(timeline), startpoint.xlogid,
                                          U32Of(U32DivSeg(startpoint.xrecoff)))},
                        !.contiguous =
                            @ /\ startpoint = ExpectedStart(sentpos, lastmsg)]
                 /\ UNCHANGED <<filename, current_xlog, timeline,
                                current_walfile_name, remove_when_passed_name,
                                remove_when_passed_size, walfile, walpos>>
         IN  /\ lastmsg' = [r |-> r, tag |-> tag, startpoint |-> startpoint,
                             status |-> "none"]
             /\ IF FrameDiag(r, tag) # "none"
                THEN Exit(1, FrameDiag(r, tag)) /\ UNCHANGED <<rolled, stream>>
                ELSE IF walfile > -1
                THEN IF xlogoff = 0
                     THEN IF ~SegmentComplete(walpos)
                          THEN Exit(1, "short_segment") /\ UNCHANGED <<rolled, stream>>
                          ELSE /\ accept("fsync")
                               /\ rolled' = rolled \cup {current_walfile_name}
                     ELSE IF ~PositionMatches(walpos, xlogoff)
                          THEN Exit(1, "misaligned") /\ UNCHANGED <<rolled, stream>>
                          ELSE accept("write") /\ UNCHANGED rolled
                ELSE IF ~AtBoundary(xlogoff)
                     THEN Exit(1, "not_at_boundary") /\ UNCHANGED <<rolled, stream>>
                     ELSE accept("open") /\ UNCHANGED rolled

\* PQgetCopyData returned -2
RecvError ==
    /\ pc = "recv"
    /\ UNCHANGED <<fsVars, run, nframes, conns, sentpos, savemade, passed,
                   rolled, published, opened, stream, paysum, rollops>>
    /\ lastmsg' = [NoMsg EXCEPT !.r = -2]
    /\ Exit(1, "copy_read_error")

\* the final result is not looked at
EndCode_Ignored(status) == IF status \in ResultStatuses THEN 0 ELSE 1

\* the exit code after the end of the copy stream
EndCode(status) == IF status # "PGRES_COMMAND_OK" THEN 1 ELSE 0

\* PQgetCopyData returned -1: end of copy, the loop is left
RecvEnd ==
    /\ pc = "recv"
    /\ UNCHANGED <<fsVars, run, nframes, conns, sentpos, savemade, passed,
                   rolled, published, opened, stream, paysum, rollops>>
    /\ lastmsg' = [NoMsg EXCEPT !.r = -1]
    /\ Goto("get_result")
    /\ UNCHANGED memVars

\* PQgetResult(conn) has waited for the final result of the server
GetResult ==
    /\ pc = "get_result"
    /\ UNCHANGED <<fsVars, run, nframes, conns, sentpos, savemade, passed,
                   rolled, published, opened, stream, paysum, rollops>>
    /\ \E status \in ResultStatuses : lastmsg' = [lastmsg EXCEPT !.status = status]
    /\ Goto("finish")
    /\ UNCHANGED memVars

\* the test of the final result, and the return through main
EndStreaming ==
    /\ pc = "finish"
    /\ UNCHANGED <<fsVars, run, nframes, histVars>>
    /\ Exit(EndCode(lastmsg.status),
            IF EndCode(lastmsg.status) = 0 THEN "finished" ELSE "replication_error")

\* fsync(walfile); its return value is not looked at
FsyncWalfile ==
    /\ pc = "fsync"
    /\ \/ inprogress' = [inprogress EXCEPT ![current_walfile_name].durable = TRUE]
       \/ UNCHANGED inprogress
    /\ Goto("close")
    /\ rollops' = Append(rollops, "fsync")
    /\ UNCHANGED <<archive, inprogdir, run, nframes, memVars, conns, sentpos,
                   savemade, passed, rolled, published, opened, stream, lastmsg, paysum>>

\* close(walfile)
CloseWalfile ==
    /\ pc = "close"
    /\ Goto(IF remove_when_passed_name # NoName THEN "unlink_rollover" ELSE "rename")
    /\ rollops' = Append(rollops, "close")
    /\ UNCHANGED <<fsVars, run, nframes, memVars, conns, sentpos, savemade,
                   passed, rolled, published, opened, stream, lastmsg, paysum>>

\* the unlink applied to the segment file in place of the saved partial
UnlinkSaved_Walfile(next) ==
    /\ UNCHANGED <<archive, inprogdir, run, nframes, conns, sentpos, savemade,
                   passed, rolled, published, opened, stream, lastmsg, paysum>>
    /\ \/ /\ UNCHANGED <<inprogress, rollops>>
          /\ Exit(1, "unlink_failed")
       \/ /\ inprogress' = RemoveEntry(inprogress, current_walfile_name)
          /\ rollops' = Append(rollops, "unlink")
          /\ remove_when_passed_name' = NoName
          /\ Goto(next)
          /\ UNCHANGED <<filename, current_xlog, timeline, current_walfile_name,
                         remove_when_passed_size, walfile, walpos, copybuf>>

\* unlink(remove_when_passed_name) and what follows it, at both call sites
UnlinkSaved(next) ==
    /\ UNCHANGED <<archive, inprogdir, run, nframes, conns, sentpos, savemade,
                   passed, rolled, published, opened, stream, lastmsg, paysum>>
    /\ \/ /\ UNCHANGED <<inprogress, rollops>>
          /\ Exit(1, "unlink_failed")
       \/ /\ inprogress' = RemoveEntry(inprogress, remove_when_passed_name)
          /\ rollops' = Append(rollops, "unlink")
          /\ remove_when_passed_name' = NoName
          /\ Goto(next)
          /\ UNCHANGED <<filename, current_xlog, timeline, current_walfile_name,
                         remove_when_passed_size, walfile, walpos, copybuf>>

\* rollover: the saved partial is removed before the old file is moved
UnlinkAtRollover ==
    /\ pc = "unlink_rollover"
    /\ UnlinkSaved("rename")

\* after a write that passed the size of the saved partial
UnlinkWhenPassed ==
    /\ pc = "unlink_passed"
    /\ UnlinkSaved("recv")

\* the rollover without the rename: the old file stays in inprogress/
rename_current_walfile_Skipped ==
    /\ pc = "rename"
    /\ UNCHANGED <<fsVars, run, nframes, conns, sentpos, savemade, passed,
                   rolled, published, opened, stream, lastmsg, paysum>>
    /\ rollops' = Append(rollops, "rename")
    /\ Goto("open")
    /\ UNCHANGED memVars

\* rename(inprogress/name, basedir/name): an entry of that name in the
\* archive directory is replaced unless it is a directory
rename_current_walfile ==
    /\ pc = "rename"
    /\ UNCHANGED <<inprogdir, run, nframes, conns, sentpos, savemade, passed,
                   rolled, opened, stream, lastmsg, paysum>>
    /\ \/ /\ UNCHANGED <<archive, inprogress, published, rollops>>
          /\ Exit(1, "rename_failed")
       \/ /\ current_walfile_name \in DOMAIN archive
                => archive[current_walfile_name].type # "dir"
          /\ archive' = (current_walfile_name :> inprogress[current_walfile_name])
                            @@ RemoveEntry(archive, current_walfile_name)
          /\ inprogress' = RemoveEntry(inprogress, current_walfile_name)
          /\ published' = published \cup
                 {[name |-> current_walfile_name,
                   size |-> inprogress[current_walfile_name].size,
                   durable |-> inprogress[current_walfile_name].durable,
                   run |-> run]}
          /\ rollops' = Append(rollops, "rename")
          /\ Goto("open")
          /\ UNCHANGED memVars

\* the name built with timeline 1 whatever the server reported
WalfileName_FirstTimeline(tli, startpoint) ==
    XLogFileName(U32Of(1), startpoint.xlogid,
                 U32Of(U32DivSeg(startpoint.xrecoff)))

\* open_walfile: the name of the file for the segment startpoint lies in
WalfileName(tli, startpoint) ==
    XLogFileName(U32Of(tli), startpoint.xlogid,
                 U32Of(U32DivSeg(startpoint.xrecoff)))

open_walfile ==
    /\ pc = "open"
    /\ UNCHANGED <<archive, inprogdir, run, nframes, conns, sentpos, savemade,
                   passed, rolled, published, lastmsg, stream>>
    /\ LET name == WalfileName(timeline, copybuf.startpoint)
       IN  \/ /\ UNCHANGED <<inprogress, opened, paysum, rollops>>
              /\ Exit(1, "open_failed")
           \/ /\ name \notin DOMAIN inprogress
              /\ opened' = opened \cup
                     {[name |-> name, tli |-> timeline,
                       startpoint |-> copybuf.startpoint]}
              /\ paysum' = 0
              /\ rollops' = Append(rollops, "open")
              /\ inprogress' = (name :> RegFile(0)) @@ inprogress
              /\ current_walfile_name' = name
              /\ walfile' = 3
              /\ walpos' = 0
              /\ Goto("write")
              /\ UNCHANGED <<filename, current_xlog, timeline,
                             remove_when_passed_name, remove_when_passed_size,
                             copybuf>>

\* the comparison with <= in place of <
SavePassed_OrEqual(name, size, pos) == name # NoName /\ size <= pos

\* does the saved partial have to go after a write that left the offset at pos
SavePassed(name, size, pos) == name # NoName /\ size < pos

\* the largest number of bytes of a buffer of len bytes that write() can
\* store without storing them all
MostShort(len) == IF len > 0 THEN len - 1 ELSE 0

\* the numbers of bytes of the buffer that are in the file when write() has
\* not stored all len of them: it returned a count below len, or -1 (nothing
\* stored), or the process was killed inside it.  Every count below len is
\* possible.
ShortCounts(len) == 0 .. MostShort(len)

\* the size of a file that held pos bytes before such a write: pos + w for
\* some w in ShortCounts(len)
CutSize(pos, len) == [min |-> pos, max |-> pos + MostShort(len)]

\* what is left of the range sz of a size once the test "size < pos" has
\* come out as gone
Narrowed(sz, pos, gone) ==
    LET r == IF gone
             THEN [min |-> sz.min, max |-> IF sz.max < pos THEN sz.max ELSE pos - 1]
             ELSE [min |-> IF sz.min < pos THEN pos ELSE sz.min, max |-> sz.max]
    IN  IF r.min <= r.max THEN r ELSE sz

\* write() of the payload, then the test for the saved partial.  write() is
\* not atomic: it can return after fewer than len bytes, which ends the
\* process with exit code 1, and the process can be killed while the bytes
\* are being written; the file is then left with any of the sizes of
\* CutSize(walpos, len).  The test compares remove_when_passed_size with the
\* new offset; where the size is a range both of whose sides the offset can
\* fall on, the test can come out either way.
WriteData ==
    /\ pc = "write"
    /\ UNCHANGED <<archive, inprogdir, run, nframes, conns, sentpos,
                   rolled, published, opened, lastmsg>>
    /\ LET len == copybuf.r - STREAMING_HEADER_SIZE
           pos == walpos + len
       IN
       \/ /\ inprogress' = [inprogress EXCEPT ![current_walfile_name] =
                               [type |-> "reg", size |-> CutSize(walpos, len),
                                durable |-> FALSE]]
          /\ UNCHANGED <<savemade, passed, paysum, rollops>>
          /\ \/ Exit(1, "write_failed") /\ UNCHANGED stream
             \/ /\ Exit(137, "killed")
                /\ stream' = IF ~stream.rec THEN stream
                             ELSE [stream EXCEPT !.killed = TRUE,
                                                 !.killrun = run]
       \/ \E gone \in { SavePassed(remove_when_passed_name, s, pos) :
                           s \in {remove_when_passed_size.min,
                                  remove_when_passed_size.max} } :
          /\ inprogress' = [inprogress EXCEPT ![current_walfile_name] =
                               RegFile(pos)]
          /\ walpos' = pos
          /\ paysum' = paysum + len
          /\ rollops' = Append(rollops, "write")
          /\ copybuf' = NoFrame
          /\ savemade' = IF savemade = NoName \/ remove_when_passed_name = NoName
                         THEN savemade
                         ELSE [savemade EXCEPT !.size = Narrowed(@, pos, gone)]
          /\ passed' = (passed \/ (savemade # NoName /\ pos > savemade'.size.max))
          /\ Goto(IF gone THEN "unlink_passed" ELSE "recv")
          /\ UNCHANGED stream
          /\ UNCHANGED <<filename, current_xlog, timeline, current_walfile_name,
                         remove_when_passed_name, remove_when_passed_size, walfile>>

\* ------------------------------------------------------------------------
\* The process is killed; the program is started again
\* ------------------------------------------------------------------------
\* the positions inside the while (1) of LogStreaming
KillPoints == {"recv", "fsync", "close", "unlink_rollover", "rename", "open",
               "write", "unlink_passed"}

Kill ==
    /\ pc # "exited"
    /\ Exit(137, "killed")
    /\ stream' = IF ~stream.rec THEN stream
                  ELSE [stream EXCEPT
                           !.killed = (pc \in KillPoints /\ walfile > -1),
                           !.killrun = run]
    /\ UNCHANGED <<fsVars, run, nframes, conns, sentpos, savemade, passed,
                   rolled, published, opened, lastmsg, paysum, rollops>>

Restart ==
    /\ pc = "exited"
    /\ run < MaxRuns
    /\ run' = run + 1
    /\ pc' = "start"
    /\ exitcode' = -1
    /\ diag' = "none"
    /\ conns' = <<>>
    /\ sentpos' = NoName
    /\ savemade' = NoName
    /\ passed' = FALSE
    /\ rolled' = {}
    /\ lastmsg' = NoMsg
    /\ paysum' = 0
    /\ rollops' = <<>>
    /\ UNCHANGED <<fsVars, nframes, memVars, published, opened, stream>>

Next ==
    \/ EnsureInprogress
    \/ ScanInprogress
    \/ SavePartial
    \/ ScanArchive
    \/ QueryPosition
    \/ ConnectReplication
    \/ IdentifySystem
    \/ StartStreaming
    \/ RecvData
    \/ RecvError
    \/ RecvEnd
    \/ GetResult
    \/ EndStreaming
    \/ FsyncWalfile
    \/ CloseWalfile
    \/ UnlinkAtRollover
    \/ rename_current_walfile
    \/ open_walfile
    \/ WriteData
    \/ UnlinkWhenPassed
    \/ Kill
    \/ Restart

Spec == Init /\ [][Next]_vars


\* ------------------------------------------------------------------------
\* Properties
\* ------------------------------------------------------------------------

IsSegName(n) == Len(n) = 24 /\ \A i \in 1..24 : \E k \in 1..16 : UpperHex[k] = n[i]
IsSaveName(n) == Len(n) = 29 /\ SubSeq(n, 25, 29) = SaveSuffix
SegEntries(dir) == { n \in DOMAIN dir : IsSegName(n) }
SaveEntries(dir) == { n \in DOMAIN dir : IsSaveName(n) }

\* C1: archive completeness.  Every 24-hex-named file of the archive
\* directory has size XLogSegSize in every state (after any frames, exits,
\* kills and restarts), and every file that was moved from inprogress/ to the
\* archive directory had size XLogSegSize when it was moved.
C1_ArchiveComplete ==
    /\ \A n \in SegEntries(archive) : archive[n].size = Exactly(XLogSegSize)
    /\ \A p \in published : p.size = Exactly(XLogSegSize)

\* a segment received in this behaviour is in the archive directory
C1_Witness ==
    \E p \in published : p.name \in DOMAIN archive /\ archive[p.name].size = Exactly(XLogSegSize)

\* C2 (as stated): every segment renamed into the archive directory was
\* covered by a successful fsync when the rename made it visible.
C2_DurableBeforeVisible == \A p \in published : p.durable

\* C3 (as stated): once the scanner has made the .save file, it exists until
\* a segment has been renamed into the archive in this run or the write
\* offset has strictly exceeded save_size.
C3_NoPrematureRetirement_Original ==
    (savemade # NoName /\ savemade.name \notin DOMAIN inprogress)
        => (passed \/ \E p \in published : p.run = run)

\* C4 (as stated): after a clean end of the stream (exit code 0) no fully
\* received segment is left in inprogress/.
C4_PublishedAtCleanEnd ==
    (pc = "exited" /\ exitcode = 0)
        => \A n \in SegEntries(inprogress) : inprogress[n].size # Exactly(XLogSegSize)

\* inprogress/ holds a regular .save file and a regular 24-hex file, only
\* the diagnoses of a directory that cannot be opened and of an entry that
\* stat() cannot read
ReadFailed(d) == d \in {"opendir_failed", "stat_failed"}

SaveAndPartial(dir) ==
    /\ Cardinality(DOMAIN dir) = 2
    /\ Cardinality(SegEntries(dir)) = 1
    /\ Cardinality(SaveEntries(dir)) = 1
    /\ \A n \in DOMAIN dir : dir[n].type = "reg"

\* C5 (as stated): a startup that finds the .save file of the previous run
\* next to a new partial segment, and can read the directory, ends with the
\* stale-.save diagnosis, exit 1.
C5_SecondCrash_Original ==
    [][(/\ pc = "scan" /\ SaveAndPartial(inprogress)
        /\ pc' = "exited" /\ exitcode' # 137 /\ ~ReadFailed(diag'))
          => (exitcode' = 1 /\ diag' = "stale_save")]_vars

\* C5 (amended): a startup that finds the .save file of the previous run
\* next to a new partial segment is rejected by the scanner with exit code 1
\* and changes no file; the diagnosis is the more-than-one-file one unless
\* the directory or its first entry could not be read.
C5_SecondCrash ==
    [][(pc = "scan" /\ SaveAndPartial(inprogress) /\ exitcode' # 137)
          => (/\ pc' = "exited"
              /\ exitcode' = 1
              /\ ~ReadFailed(diag') => diag' = "more_than_one_file"
              /\ UNCHANGED fsVars)]_vars

\* the second startup has been rejected
C5_Witness ==
    /\ run = 2
    /\ pc = "exited"
    /\ diag = "more_than_one_file"
    /\ SaveAndPartial(inprogress)

\* C6: in every state inprogress/ holds at most one 24-hex-named entry and
\* at most one .save entry.
C6_Uniqueness ==
    /\ Cardinality(SegEntries(inprogress)) <= 1
    /\ Cardinality(SaveEntries(inprogress)) <= 1

\* a new segment is being written next to the .save file
C6_Witness ==
    /\ pc = "write"
    /\ Cardinality(SegEntries(inprogress)) = 1
    /\ Cardinality(SaveEntries(inprogress)) = 1

\* inprogress/ holds one regular file with a 24-hex name, only
OnePartial(dir) ==
    /\ Cardinality(DOMAIN dir) = 1
    /\ \A n \in DOMAIN dir : IsSegName(n) /\ dir[n].type = "reg"

\* "L/N*S" in %X/%X for the 24-hex name of segment (T, L, N), N < 2^32 / S
SegmentStartText(n) ==
    StripZeros(SubSeq(n, 9, 16)) \o <<"/">>
        \o StripZeros(SubSeq(n, 23, 24) \o <<"0", "0", "0", "0", "0", "0">>)

\* C7: when inprogress/ holds exactly one regular file with a 24-hex name
\* and the scanner can read it, the scanner takes the partial-segment branch, and when that branch
\* completes the file is inprogress/<name>.save with its size unchanged,
\* save_size is that size, and the resume position is the start of that
\* segment, whatever the archive directory holds.
C7_ScannerPartial ==
    [][/\ (pc = "scan" /\ OnePartial(inprogress) /\ exitcode' # 137
                         /\ ~ReadFailed(diag'))
          => (/\ pc' = "save_rename"
              /\ filename' \in DOMAIN inprogress
              /\ UNCHANGED fsVars)
       /\ (pc = "save_rename" /\ pc' = "connect")
          => (/\ DOMAIN inprogress' = {filename \o SaveSuffix}
              /\ inprogress'[filename \o SaveSuffix] = inprogress[filename]
              /\ remove_when_passed_name' = filename \o SaveSuffix
              /\ remove_when_passed_size' = inprogress[filename].size
              /\ current_xlog' = SegmentStartText(filename)
              /\ UNCHANGED archive)]_vars

\* the partial segment 9 was saved aside while the archive holds a segment
C7_Witness ==
    /\ pc = "connect"
    /\ run = 1
    /\ remove_when_passed_name = Partial9 \o SaveSuffix
    /\ remove_when_passed_size = Exactly(HalfSeg)
    /\ current_xlog = <<"0", "/", "9", "0", "0", "0", "0", "0", "0">>
    /\ archive # EmptyDir

\* a precedes b in the order of their characters (names of 24 hex digits)
LexLess(a, b) ==
    \E i \in 1..24 :
        /\ \A j \in 1..(i - 1) : a[j] = b[j]
        /\ XDigitVal(a[i]) < XDigitVal(b[i])

LargestSegName(dir) ==
    CHOOSE n \in SegEntries(dir) : \A m \in SegEntries(dir) \ {n} : LexLess(m, n)

\* the start of the segment after (L, N): (L, N+1), and (L+1, 0) after the
\* last segment of a log file, which is segment XLogSegsPerFile - 1
NextSegmentStartText(n) ==
    LET f == XLogFromFileName(n) IN
    IF f.seg.hi = 0 /\ f.seg.lo < XLogSegsPerFile - 1
    THEN FmtX(f.log) \o <<"/">> \o FmtX(U32(f.seg.lo + 1, 0))
    ELSE FmtX(U32Inc(f.log)) \o <<"/", "0">>

\* C8: when inprogress/ is empty the scanner looks at the archive directory,
\* and when that holds a 24-hex name the resume position is the start of the
\* segment after the lexicographically largest 24-hex name; other names do
\* not count.  (A directory that cannot be opened ends the process.)
C8_ScannerCompleted ==
    [][/\ (pc = "scan" /\ inprogress = EmptyDir /\ exitcode' # 137
                         /\ ~ReadFailed(diag'))
          => pc' = "scan_archive"
       /\ (pc = "scan_archive" /\ SegEntries(archive) # {} /\ exitcode' # 137
                                 /\ ~ReadFailed(diag'))
          => (/\ pc' = "connect"
              /\ current_xlog' = NextSegmentStartText(LargestSegName(archive))
              /\ UNCHANGED fsVars)]_vars

\* segments 7 and 8 and two other names in the archive: resume at segment 9
C8_Witness ==
    /\ pc = "connect"
    /\ inprogress = EmptyDir
    /\ archive = ArchiveMixed
    /\ current_xlog = <<"0", "/", "9", "0", "0", "0", "0", "0", "0">>

\* C9: the position sent in START_REPLICATION is on a segment boundary, and
\* it is the position the scanner or the server gave, rounded down to the
\* start of its segment.
C9_ResumeAligned ==
    sentpos # NoName =>
        LET s == ScanPosition(sentpos) IN
        /\ s.n = 2
        /\ s.uxrecoff.lo = 0
        /\ pc # "exited" =>
              LET c == ScanPosition(current_xlog) IN
              /\ s.uxlogid = c.uxlogid
              /\ s.uxrecoff.hi = c.uxrecoff.hi

\* the server reported 0/9ABCDEF and replication was started at 0/9000000
C9_Witness ==
    /\ pc = "recv"
    /\ conns = <<"plain", "replication">>
    /\ current_xlog = <<"0", "/", "9", "A", "B", "C", "D", "E", "F">>
    /\ sentpos = <<"0", "/", "9", "0", "0", "0", "0", "0", "0">>

\* inprogress/ holds one regular file named <24 hex digits>.save, only
OnlySave(dir) ==
    /\ Cardinality(DOMAIN dir) = 1
    /\ \A n \in DOMAIN dir :
          IsSaveName(n) /\ IsSegName(SubSeq(n, 1, 24)) /\ dir[n].type = "reg"

\* C10: when inprogress/ holds exactly one file and it is named like a
\* segment followed by .save, the scanner exits with code 1 and the
\* stale-.save message (or, when the directory or the file cannot be read,
\* with the message of that failure), no connection has been opened, and no
\* file is renamed or deleted.
C10_StaleSave ==
    [][(pc = "scan" /\ OnlySave(inprogress) /\ exitcode' # 137)
          => (/\ pc' = "exited"
              /\ exitcode' = 1
              /\ ~ReadFailed(diag') => diag' = "stale_save"
              /\ conns' = <<>>
              /\ UNCHANGED fsVars)]_vars

\* the first startup found a .save file and gave up
C10_Witness ==
    /\ run = 1
    /\ pc = "exited"
    /\ exitcode = 1
    /\ diag = "stale_save"
    /\ OnlySave(inprogress)


\* ------------------------------------------------------------------------
\* The receive loop: messages and their checks
\* ------------------------------------------------------------------------

\* the step in which PQgetCopyData returns a data message
MessageArrives == pc = "recv" /\ nframes' = nframes + 1

\* shorter than tag (1) + header (24) + one payload byte, or not of type 'w'
Malformed(m) == m.r < 1 + 24 + 1 \/ m.tag # "w"

\* C11: a received message that is shorter than tag + header + one payload
\* byte, or whose first byte is not 'w', ends the process with exit code 1,
\* and in that step no entry of the archive directory or of inprogress/ is
\* created, written, renamed or deleted.
C11_MalformedFatal ==
    [][(MessageArrives /\ Malformed(lastmsg'))
          => (/\ pc' = "exited"
              /\ exitcode' = 1
              /\ UNCHANGED fsVars)]_vars

\* a keepalive has arrived while a segment was open and a .save file existed
C11_Witness ==
    /\ pc = "exited"
    /\ exitcode = 1
    /\ lastmsg.tag = "k"
    /\ lastmsg.r > 1 + 24
    /\ SegEntries(inprogress) # {}
    /\ SaveEntries(inprogress) # {}
    /\ nframes > 1

\* the in-segment offset a message is addressed to
MsgOffset(m) == U32ModSeg(m.startpoint.xrecoff)

\* C12: when a segment is open and a well-formed message arrives whose
\* in-segment offset is nonzero and differs from the write position, the
\* process exits with code 1 and no byte of the message is written: the file
\* in inprogress/ keeps its name and size, nothing enters the archive
\* directory and the .save file stays.
C12_MisalignedFatal ==
    [][(/\ MessageArrives
        /\ ~Malformed(lastmsg')
        /\ walfile > -1
        /\ MsgOffset(lastmsg') # 0
        /\ MsgOffset(lastmsg') # walpos)
          => (/\ pc' = "exited"
              /\ exitcode' = 1
              /\ diag' = "misaligned"
              /\ current_walfile_name \in DOMAIN inprogress'
              /\ UNCHANGED fsVars)]_vars

\* a message for offset 8 has arrived while the open file held half a
\* segment and a .save file existed
C12_Witness ==
    /\ pc = "exited"
    /\ diag = "misaligned"
    /\ MsgOffset(lastmsg) = 8
    /\ SaveEntries(inprogress) # {}
    /\ \E n \in SegEntries(inprogress) : inprogress[n].size = Exactly(HalfSeg)

\* the positions of the process inside the while (1) of LogStreaming
LoopPcs == {"recv", "fsync", "close", "unlink_rollover", "rename", "open",
            "write", "unlink_passed"}

\* the positions after the loop: the final result is awaited, then examined
EndPcs == {"get_result", "finish"}

\* C13: the receive loop is left only by the end of the copy stream or by a
\* fatal error (a kill apart); after the end of the copy stream the exit code
\* is 0 exactly when the final result is PGRES_COMMAND_OK and 1 otherwise;
\* after a read error (-2) it is 1; exit code 0 occurs in no other way.
C13_LoopTermination ==
    /\ [][(pc \in LoopPcs /\ pc' \notin LoopPcs)
             => \/ pc' = "exited" /\ exitcode' \in {1, 137}
                \/ pc = "recv" /\ pc' = "get_result" /\ lastmsg'.r = -1]_vars
    /\ []((pc = "exited" /\ lastmsg.r = -1 /\ exitcode # 137)
             => /\ exitcode \in {0, 1}
                /\ (exitcode = 0) <=> (lastmsg.status = "PGRES_COMMAND_OK"))
    /\ []((pc = "exited" /\ lastmsg.r = -2) => exitcode = 1)
    /\ [](exitcode = 0 => lastmsg.r = -1)

\* the stream has ended with an error result after data had been written
C13_Witness ==
    /\ pc = "exited"
    /\ exitcode = 1
    /\ lastmsg.r = -1
    /\ lastmsg.status = "PGRES_FATAL_ERROR"
    /\ \E n \in SegEntries(inprogress) : inprogress[n].size = Exactly(HalfSeg + 1)

\* ------------------------------------------------------------------------
\* The saved partial segment
\* ------------------------------------------------------------------------

\* the longest payload of one message
MaxPayload ==
    CHOOSE m \in { r - (1 + 24) : r \in MsgLens } :
        \A r \in MsgLens : r - (1 + 24) <= m

\* C14 as stated: whenever a .save file exists in inprogress/, its size is
\* strictly less than a whole segment.
C14_SaveSize_Original ==
    \A n \in SaveEntries(inprogress) : inprogress[n].size.max < XLogSegSize

\* C14: whenever a .save file exists in inprogress/, its size is less than
\* a whole segment plus the longest payload of one message: a message is
\* only appended at a write position below the segment size, but the file
\* that reaches or overruns the segment size stays in inprogress/ until the
\* next segment's first message, so a run that ends in between leaves it to
\* be saved with a size of a whole segment or more.
C14_SaveSize ==
    \A n \in SaveEntries(inprogress) :
        inprogress[n].size.max < XLogSegSize + MaxPayload

\* the second run has saved a partial that the first run had filled up
C14_Witness ==
    /\ run = 2
    /\ nframes >= 2
    /\ savemade # NoName
    /\ savemade.size = Exactly(XLogSegSize)
    /\ savemade.name \in SaveEntries(inprogress)
    /\ inprogress[savemade.name].size = Exactly(XLogSegSize)

\* ------------------------------------------------------------------------
\* The naming of segment files, over the range of timelines and positions
\* ------------------------------------------------------------------------

NamingTimelines == {1, 2, 2147483647}
NamingLogs == {U32Zero, U32(0, 1), U32(0, 11259375), U32(255, XLogSegSize - 1)}
NamingSegs == {0, 1, 9, 10, 15, 16, 128, 254, 255}

\* the first message of a run has been accepted and its file is about to be
\* created: the run found no local state, the server is at the position of
\* the message
NamingInit ==
    /\ archive = EmptyDir
    /\ inprogress = EmptyDir
    /\ inprogdir = "dir"
    /\ pc = "open"
    /\ exitcode = -1
    /\ diag = "none"
    /\ run = 1
    /\ nframes = 1
    /\ \E t \in NamingTimelines, l \in NamingLogs, n \in NamingSegs :
         LET startpoint == [xlogid |-> l, xrecoff |-> U32(n, 0)]
             text == FmtX(l) \o Slash \o FmtX(U32(n, 0))
         IN  /\ timeline = t
             /\ stream = NoStream
             /\ copybuf = [r |-> STREAMING_HEADER_SIZE + 1, tag |-> "w",
                           startpoint |-> startpoint]
             /\ lastmsg = [r |-> STREAMING_HEADER_SIZE + 1, tag |-> "w",
                           startpoint |-> startpoint, status |-> "none"]
             /\ current_xlog = text
             /\ sentpos = text
    /\ filename = NoName
    /\ current_walfile_name = NoName
    /\ remove_when_passed_name = NoName
    /\ remove_when_passed_size = Exactly(0)
    /\ walfile = -1
    /\ walpos = 0
    /\ conns = <<ConnKind(FALSE), ConnKind(TRUE)>>
    /\ savemade = NoName
    /\ passed = FALSE
    /\ rolled = {}
    /\ published = {}
    /\ opened = {}
    /\ paysum = 0
    /\ rollops = <<>>

\* the file is created, the run ends, the next run scans inprogress/
NamingNext ==
    \/ open_walfile
    \/ Kill
    \/ Restart
    \/ EnsureInprogress
    \/ ScanInprogress
    \/ SavePartial

NamingSpec == NamingInit /\ [][NamingNext]_vars

\* C15: the name generated for (timeline, log, segment) parses back to
\* (timeline, log, segment), and a file the writer created for a message at
\* position p, found by the scanner of a later run, gives the resume
\* position p rounded down to the start of its segment.
C15_NamingRoundTrip ==
    /\ \A o \in opened :
         /\ IsSegName(o.name)
         /\ XLogFromFileName(o.name) =
                [tli |-> U32(o.tli \div XLogSegSize, o.tli % XLogSegSize),
                 log |-> o.startpoint.xlogid,
                 seg |-> U32(0, o.startpoint.xrecoff.hi)]
    /\ (pc = "connect" /\ run > 1 /\ savemade # NoName)
          => \A o \in opened :
                (o.name \o SaveSuffix = savemade.name)
                   => current_xlog = FmtX(o.startpoint.xlogid) \o Slash
                                       \o FmtX(U32(o.startpoint.xrecoff.hi, 0))

\* the file of the last segment of the last log on the highest timeline has
\* been found by the scanner of the second run
C15_Witness ==
    /\ pc = "connect"
    /\ run = 2
    /\ savemade # NoName
    /\ \E o \in opened :
         /\ o.name \o SaveSuffix = savemade.name
         /\ o.tli = 2147483647
         /\ o.startpoint.xlogid = U32(255, XLogSegSize - 1)
         /\ o.startpoint.xrecoff.hi = 254
         /\ current_xlog = <<"F","F","F","F","F","F","F","F","/","F","E","0","0","0","0","0","0">>

\* ------------------------------------------------------------------------
\* The order of segment names
\* ------------------------------------------------------------------------

\* x < y for 32-bit values
U32Less(x, y) == x.hi < y.hi \/ (x.hi = y.hi /\ x.lo < y.lo)

\* the position (log, seg) of m lies before that of n
PositionLess(m, n) ==
    LET a == XLogFromFileName(m)
        b == XLogFromFileName(n)
    IN  U32Less(a.log, b.log) \/ (a.log = b.log /\ U32Less(a.seg, b.seg))

\* (timeline, log, seg) of m lies before that of n
TripleLess(m, n) ==
    LET a == XLogFromFileName(m)
        b == XLogFromFileName(n)
    IN  U32Less(a.tli, b.tli) \/ (a.tli = b.tli /\ PositionLess(m, n))

\* C16 as stated: the name the scanner chooses in the archive directory is
\* the archived segment with the greatest position (log, seg).
C16_NameOrder_Original ==
    [][(pc = "scan_archive" /\ pc' = "connect")
          => \E n \in SegEntries(archive) :
                /\ \A m \in SegEntries(archive) : ~PositionLess(n, m)
                /\ current_xlog' = NextSegmentStartText(n)]_vars

\* C16: segment names sort lexicographically in the order of (timeline,
\* log, seg), the timeline first: the name the scanner chooses in the
\* archive directory is the one with the greatest (timeline, log, seg),
\* which has the greatest position among the names of the highest timeline
\* present and not always among all archived names.
C16_NameOrder ==
    [][(pc = "scan_archive" /\ pc' = "connect")
          => /\ \A m, n \in SegEntries(archive) : LexLess(m, n) <=> TripleLess(m, n)
             /\ \E n \in SegEntries(archive) :
                   /\ \A m \in SegEntries(archive) : ~TripleLess(n, m)
                   /\ \A m \in SegEntries(archive) :
                         SubSeq(m, 1, 8) = SubSeq(n, 1, 8) => ~PositionLess(n, m)
                   /\ current_xlog' = NextSegmentStartText(n)]_vars

\* segment 7 of timeline 2 has been chosen although segment 8 is archived
C16_Witness ==
    /\ pc = "connect"
    /\ archive = ArchiveTimelines
    /\ current_xlog = <<"0", "/", "8", "0", "0", "0", "0", "0", "0">>

\* ------------------------------------------------------------------------
\* The start without local state
\* ------------------------------------------------------------------------

\* the run has opened a connection that is not a replication connection
PlainOpened(c) == \E i \in DOMAIN c : c[i] = "plain"

\* C17: when inprogress/ is empty and the archive directory, which can be
\* opened, holds no 24-hex name, the scanner returns no position, the receiver asks the server for
\* its current position over a plain connection and starts replication at
\* that position rounded down to the start of its segment; a plain
\* connection is opened in this case only.
C17_EmptyStart ==
    /\ [][/\ (pc = "scan_archive" /\ SegEntries(archive) = {} /\ exitcode' # 137
                                    /\ ~ReadFailed(diag'))
             => (/\ pc' = "query"
                 /\ current_xlog' = NoName
                 /\ conns' = <<>>)
          /\ (pc = "query" /\ exitcode' # 137)
             => (/\ conns' = <<"plain">>
                 /\ pc' = "connect" => current_xlog' \in ServerPositions)
          /\ (Len(conns') > Len(conns) /\ conns'[Len(conns')] = "plain")
             => (/\ pc = "query"
                 /\ inprogress = EmptyDir
                 /\ SegEntries(archive) = {})]_vars
    /\ []((PlainOpened(conns) /\ sentpos # NoName /\ pc # "exited")
             => (/\ conns = <<"plain", "replication">>
                 /\ current_xlog \in ServerPositions
                 /\ LET c == ScanPosition(current_xlog) IN
                    sentpos = FmtX(c.uxlogid) \o <<"/">>
                                 \o FmtX(U32(c.uxrecoff.hi, 0))))

\* nothing on disk, the server is in the middle of segment 9
C17_Witness ==
    /\ pc = "recv"
    /\ run = 1
    /\ nframes = 0
    /\ archive = EmptyDir
    /\ inprogress = EmptyDir
    /\ conns = <<"plain", "replication">>
    /\ current_xlog = <<"0", "/", "9", "A", "B", "C", "D", "E", "F">>
    /\ sentpos = <<"0", "/", "9", "0", "0", "0", "0", "0", "0">>

\* ------------------------------------------------------------------------
\* The receive loop: where the payload goes
\* ------------------------------------------------------------------------

\* C18: when the payload of an accepted message with start position p is
\* about to be written, either p is on a segment boundary and the file has
\* just been created for the segment of p (after the previous file was
\* renamed into the archive directory when one was open), or the file was
\* open and the in-segment offset of p is its size; no file of inprogress/
\* changes its size in any other step.
C18_FrameAlignment ==
    /\ [](pc = "write"
            => LET off == MsgOffset(copybuf)
                   last == Len(rollops)
               IN  /\ copybuf.tag = "w"
                   /\ current_walfile_name \in SegEntries(inprogress)
                   /\ inprogress[current_walfile_name].size = Exactly(off)
                   /\ walpos = off
                   /\ IF off = 0
                      THEN /\ current_walfile_name =
                                XLogFileName(U32Of(timeline),
                                             copybuf.startpoint.xlogid,
                                             U32(0, copybuf.startpoint.xrecoff.hi))
                           /\ last > 0 /\ rollops[last] = "open"
                           /\ last > 1 => (/\ rollops[1] = "fsync"
                                           /\ rollops[last - 1] = "rename")
                      ELSE rollops = <<>>)
    /\ [][\A n \in DOMAIN inprogress \cap DOMAIN inprogress' :
             inprogress'[n].size # inprogress[n].size
                => (pc = "write" /\ n = current_walfile_name)]_vars

\* the first message of the next segment is about to be written after the
\* rollover
C18_Witness ==
    /\ pc = "write"
    /\ MsgOffset(copybuf) = 0
    /\ rollops = <<"fsync", "close", "rename", "open">>
    /\ published # {}
    /\ inprogress[current_walfile_name].size = Exactly(0)

\* C19: between two messages the size on disk of the open segment file is
\* the sum of the payload lengths written to it, and after each write it is
\* the in-segment offset of the message plus its payload length, the
\* message length minus 25; a write that stores fewer bytes ends the process
\* with exit code 1.
C19_WriteOffset ==
    /\ []((pc \in {"recv", "unlink_passed"} /\ walfile > -1)
             => (/\ current_walfile_name \in DOMAIN inprogress
                 /\ inprogress[current_walfile_name].size = Exactly(paysum)
                 /\ walpos = paysum))
    /\ [][/\ (pc = "write" /\ pc' \in {"recv", "unlink_passed"})
             => inprogress'[current_walfile_name].size =
                    Exactly(MsgOffset(copybuf) + (copybuf.r - 25))
          /\ (/\ pc = "write"
              /\ exitcode' # 137
              /\ inprogress'[current_walfile_name].size #
                    Exactly(inprogress[current_walfile_name].size.min
                               + (copybuf.r - 25)))
             => (pc' = "exited" /\ exitcode' = 1)]_vars

\* two payloads, of half a segment and of one byte, are in the open file
C19_Witness ==
    /\ pc = "recv"
    /\ walfile > -1
    /\ paysum = HalfSeg + 1
    /\ inprogress[current_walfile_name].size = Exactly(HalfSeg + 1)
    /\ rollops = <<"write">>

\* ------------------------------------------------------------------------
\* The rollover
\* ------------------------------------------------------------------------

IsPrefix(s, t) == Len(s) <= Len(t) /\ \A i \in 1..Len(s) : s[i] = t[i]

\* the file operations of a rollover, in the order the claim gives them
RolloverOrders_Original ==
    { <<"fsync", "close", "rename", "unlink", "open", "write">>,
      <<"fsync", "close", "rename", "open", "write">> }

\* C20 as stated: at a rollover the file is fsynced, closed and renamed into
\* the archive directory, only then is the .save file unlinked, only then is
\* the new file created.
C20_RolloverOrder_Original ==
    (rollops # <<>> /\ rollops[1] = "fsync")
        => \E t \in RolloverOrders_Original : IsPrefix(rollops, t)

\* ------------------------------------------------------------------------
\* The saved partial segment during the receive loop
\* ------------------------------------------------------------------------

\* C21: while a .save file is recorded, a write that leaves the write offset
\* at or below the size the partial had when it was saved leaves the .save
\* file in place and goes on to the next message; the first write that
\* leaves the offset above that size is followed at once by the unlink of
\* the .save file.  savemade.size is the range of sizes the file can have
\* given the tests made so far: "at or below" is at or below each of them,
\* "above" is above each of them.
C21_StrictCatchUp ==
    /\ [][(/\ pc = "write"
           /\ pc' # "exited"
           /\ remove_when_passed_name # NoName)
             => (/\ savemade # NoName
                 /\ remove_when_passed_name = savemade.name
                 /\ savemade.name \in DOMAIN inprogress'
                 /\ IF walpos' > savemade'.size.max
                    THEN pc' = "unlink_passed"
                    ELSE pc' = "recv" /\ walpos' <= savemade'.size.min)]_vars
    /\ [][(pc = "unlink_passed" /\ pc' # "exited")
             => (/\ pc' = "recv"
                 /\ savemade.name \in DOMAIN inprogress
                 /\ savemade.name \notin DOMAIN inprogress'
                 /\ walpos > savemade.size.max)]_vars
    /\ []((pc = "recv" /\ remove_when_passed_name # NoName /\ walfile > -1)
             => (/\ walpos <= savemade.size.min
                 /\ savemade.name \in DOMAIN inprogress))

\* a partial of half a segment was kept after a write to that offset and
\* removed after the write of one more byte
C21_Witness ==
    /\ pc = "recv"
    /\ savemade # NoName
    /\ savemade.size = Exactly(HalfSeg)
    /\ walpos = HalfSeg + 1
    /\ paysum = HalfSeg + 1
    /\ savemade.name \notin DOMAIN inprogress
    /\ rollops = <<"write", "unlink">>

\* the log and segment digits of a 24-hex name or of its .save variant
LogSegOf(n) == SubSeq(n, 9, 24)

\* C22: whenever the .save file is unlinked, the segment file that is open
\* (its write offset has passed the saved size) or has just been closed for
\* the rollover is the file of the same log and segment as the one the .save
\* file was renamed from.
C22_RetiredByOwnSegment ==
    [][(/\ savemade # NoName
        /\ savemade.name \in DOMAIN inprogress
        /\ savemade.name \notin DOMAIN inprogress')
          => (/\ current_walfile_name # NoName
              /\ LogSegOf(current_walfile_name) = LogSegOf(savemade.name))]_vars

\* C23: when a segment is open with a write position other than the segment
\* size and a well-formed message with in-segment offset 0 arrives, the
\* process exits with code 1 before any fsync, close, unlink, rename or
\* open: no entry of inprogress/ or of the archive directory changes.
C23_ShortSegmentFatal ==
    [][(/\ MessageArrives
        /\ ~Malformed(lastmsg')
        /\ walfile > -1
        /\ MsgOffset(lastmsg') = 0
        /\ walpos # XLogSegSize)
          => (/\ pc' = "exited"
              /\ exitcode' = 1
              /\ diag' = "short_segment"
              /\ rollops' = <<>>
              /\ current_walfile_name \in DOMAIN inprogress'
              /\ UNCHANGED fsVars)]_vars

\* the message for the next segment arrived when the open file held half a
\* segment and the .save file was still there
C23_Witness ==
    /\ pc = "exited"
    /\ exitcode = 1
    /\ diag = "short_segment"
    /\ MsgOffset(lastmsg) = 0
    /\ SaveEntries(inprogress) # {}
    /\ \E n \in SegEntries(inprogress) : inprogress[n].size = Exactly(HalfSeg)

\* C24: when no segment is open and a well-formed message arrives whose
\* in-segment offset is not 0, the process exits with code 1 and nothing is
\* created; a 24-hex name appears in inprogress/ only as an empty file made
\* for a message whose in-segment offset is 0.
C24_FirstFrameStartsSegment ==
    [][/\ (/\ MessageArrives
           /\ ~Malformed(lastmsg')
           /\ walfile = -1
           /\ MsgOffset(lastmsg') # 0)
             => (/\ pc' = "exited"
                 /\ exitcode' = 1
                 /\ diag' = "not_at_boundary"
                 /\ UNCHANGED fsVars)
       /\ \A n \in SegEntries(inprogress') \ DOMAIN inprogress :
             /\ pc = "open"
             /\ MsgOffset(copybuf) = 0
             /\ inprogress'[n].size = Exactly(0)
             /\ LogSegOf(n) = Fmt08X(copybuf.startpoint.xlogid)
                                 \o Fmt08X(U32(0, copybuf.startpoint.xrecoff.hi))]_vars

\* the first message of the session was addressed to offset 8
C24_Witness ==
    /\ pc = "exited"
    /\ exitcode = 1
    /\ diag = "not_at_boundary"
    /\ MsgOffset(lastmsg) = 8
    /\ SegEntries(inprogress) = {}
    /\ sentpos # NoName

\* ------------------------------------------------------------------------
\* File operations of the receive loop
\* ------------------------------------------------------------------------

\* the file operation of this step has failed: no file was created, fewer
\* bytes than the payload were stored, the file was not made durable, the
\* file was not moved, the .save file was not removed
OperationFailed ==
    \/ pc = "open" /\ SegEntries(inprogress') = SegEntries(inprogress)
    \/ /\ pc = "write"
       /\ inprogress'[current_walfile_name].size #
             Exactly(inprogress[current_walfile_name].size.min + (copybuf.r - 25))
    \/ pc = "fsync" /\ ~inprogress'[current_walfile_name].durable
    \/ pc = "rename" /\ current_walfile_name \in DOMAIN inprogress'
    \/ /\ pc \in {"unlink_rollover", "unlink_passed"}
       /\ remove_when_passed_name \in DOMAIN inprogress'

\* C25: a failure of a file operation of the receive loop (open, write,
\* fsync, rename, unlink) ends the process with exit code 1 and no later
\* step for that message is executed.
C25_IOFailureFatal ==
    [][(exitcode' # 137 /\ OperationFailed)
          => (pc' = "exited" /\ exitcode' = 1)]_vars

\* C26: a name leaves inprogress/ in three ways only: the .save file the
\* scanner recorded is unlinked, a 24-hex file is renamed into the archive
\* directory at a rollover, or a 24-hex file is renamed to <name>.save at
\* startup; no name ever leaves the archive directory and no file there
\* gets shorter.
C26_NoDeletePath ==
    [][/\ \A n \in DOMAIN inprogress \ DOMAIN inprogress' :
             \/ /\ pc \in {"unlink_rollover", "unlink_passed"}
                /\ IsSaveName(n)
                /\ savemade # NoName
                /\ n = savemade.name
                /\ UNCHANGED archive
             \/ /\ pc = "rename"
                /\ IsSegName(n)
                /\ n \in DOMAIN archive'
                /\ archive'[n] = inprogress[n]
             \/ /\ pc = "save_rename"
                /\ IsSegName(n)
                /\ (n \o SaveSuffix) \in DOMAIN inprogress'
                /\ inprogress'[n \o SaveSuffix] = inprogress[n]
                /\ UNCHANGED archive
       /\ \A n \in DOMAIN archive :
             /\ n \in DOMAIN archive'
             /\ archive'[n].size.min >= archive[n].size.max]_vars

\* a partial was saved at startup and removed at the rollover, and the
\* filled segment has been moved to the archive directory
C26_Witness ==
    /\ pc = "open"
    /\ rollops = <<"fsync", "close", "unlink", "rename">>
    /\ savemade # NoName
    /\ savemade.name \notin DOMAIN inprogress
    /\ inprogress = EmptyDir
    /\ \E p \in published : p.name \in DOMAIN archive

\* ------------------------------------------------------------------------
\* Startup
\* ------------------------------------------------------------------------

\* inprogress/ holds more than one entry, or an entry that is not a regular
\* file, or one file that is neither a segment nor a saved segment
CorruptInprogress(dir) ==
    \/ Cardinality(DOMAIN dir) > 1
    \/ \E n \in DOMAIN dir : dir[n].type # "reg"
    \/ \E n \in DOMAIN dir :
          /\ DOMAIN dir = {n}
          /\ ~IsSegName(n)
          /\ ~(IsSaveName(n) /\ IsSegName(SubSeq(n, 1, 24)))

\* C27: when inprogress/ is corrupt in that sense, the scan ends the process
\* with exit code 1 in whatever order the entries are read: no file is
\* renamed, created or deleted and no connection has been or is opened.
C27_CorruptInprogress ==
    [][(pc = "scan" /\ CorruptInprogress(inprogress) /\ exitcode' # 137)
          => (/\ pc' = "exited"
              /\ exitcode' = 1
              /\ diag' \in {"more_than_one_file", "non_file_entry", "unknown_file",
                            "opendir_failed", "stat_failed"}
              /\ conns = <<>>
              /\ conns' = <<>>
              /\ UNCHANGED fsVars)]_vars

\* the second run has found the .save file and the partial of the first run
C27_Witness ==
    /\ pc = "exited"
    /\ exitcode = 1
    /\ run = 2
    /\ diag = "more_than_one_file"
    /\ conns = <<>>
    /\ Cardinality(SaveEntries(inprogress)) = 1
    /\ Cardinality(SegEntries(inprogress)) = 1

\* the positions of the process before the session is set up
ScanPcs == {"start", "scan", "save_rename", "scan_archive"}

\* C28: in every run inprogress/ is a directory before the scanner runs, the
\* scanner has finished before a connection is opened, the timeline is
\* taken from IDENTIFY_SYSTEM on the replication connection before
\* START_REPLICATION is sent, and a message is read and a segment file
\* created only after START_REPLICATION was answered; a step that fails ends
\* the process with exit code 1.
C28_SetupOrder ==
    /\ []((pc \notin {"start", "exited"}) => inprogdir = "dir")
    /\ [](conns # <<>> => (inprogdir = "dir" /\ pc \notin ScanPcs))
    /\ []((pc # "exited" /\ timeline # 0)
             => (/\ conns # <<>>
                 /\ conns[Len(conns)] = "replication"
                 /\ timeline \in Timelines))
    /\ [](sentpos # NoName
             => (/\ conns # <<>>
                 /\ conns[Len(conns)] = "replication"
                 /\ pc # "exited" => timeline \in Timelines))
    /\ [](pc \in LoopPcs => sentpos # NoName)
    /\ [](lastmsg # NoMsg => sentpos # NoName)
    /\ [][/\ (SegEntries(inprogress') \ DOMAIN inprogress # {})
             => (pc = "open" /\ lastmsg # NoMsg /\ sentpos # NoName)
          /\ (pc \notin LoopPcs \cup EndPcs /\ pc' = "exited" /\ exitcode' # 137)
             => exitcode' = 1
          /\ (pc \notin LoopPcs /\ pc' \in LoopPcs)
             => (pc = "start_streaming" /\ pc' = "recv")]_vars

\* the first segment file of a session that had to ask the server for its
\* position has been created
C28_Witness ==
    /\ pc = "write"
    /\ run = 1
    /\ conns = <<"plain", "replication">>
    /\ timeline = 1
    /\ sentpos # NoName
    /\ Cardinality(opened) = 1
    /\ rollops = <<"open">>

\* ------------------------------------------------------------------------
\* Sessions against a server that may be on a later timeline
\* ------------------------------------------------------------------------
\* values of the timeline field of the IDENTIFY_SYSTEM response
SessionTimelines == {1, 2}

IdentifySession == IdentifySystemOn(SessionTimelines)

TimelineNext ==
    \/ EnsureInprogress
    \/ ScanInprogress
    \/ SavePartial
    \/ ScanArchive
    \/ QueryPosition
    \/ ConnectReplication
    \/ IdentifySession
    \/ StartStreaming
    \/ RecvData
    \/ RecvError
    \/ RecvEnd
    \/ GetResult
    \/ EndStreaming
    \/ FsyncWalfile
    \/ CloseWalfile
    \/ UnlinkAtRollover
    \/ rename_current_walfile
    \/ open_walfile
    \/ WriteData
    \/ UnlinkWhenPassed
    \/ Kill
    \/ Restart

TimelineSpec == Init /\ [][TimelineNext]_vars

\* C29: the timeline of a session is set by the IDENTIFY_SYSTEM step, before
\* START_REPLICATION is sent, and by no later step of the session; every
\* segment file the session creates has the eight hex digits of that
\* timeline at the head of its name.
C29_TimelineFixed ==
    /\ []((sentpos # NoName /\ pc # "exited") => timeline \in SessionTimelines)
    /\ [](\A o \in opened : SubSeq(o.name, 1, 8) = Fmt08X(U32Of(o.tli)))
    /\ [][/\ (timeline' # timeline)
             => \/ pc = "identify" /\ pc' = "start_streaming"
                \/ pc' = "exited"
          /\ \A n \in DOMAIN inprogress' \ DOMAIN inprogress :
                IsSegName(n)
                => (/\ pc = "open"
                    /\ timeline' = timeline
                    /\ SubSeq(n, 1, 8) = Fmt08X(U32Of(timeline)))]_vars

\* one session on timeline 2 has created its second segment file
C29_Witness ==
    /\ pc = "write"
    /\ run = 1
    /\ timeline = 2
    /\ Cardinality(opened) = 2
    /\ \A o \in opened :
          /\ o.tli = 2
          /\ o.name \in DOMAIN archive \cup DOMAIN inprogress
          /\ SubSeq(o.name, 1, 8) = <<"0", "0", "0", "0", "0", "0", "0", "2">>

\* ------------------------------------------------------------------------
\* The resume position, over the range of log and segment numbers of a name
\* ------------------------------------------------------------------------

LogposLogs == {U32Zero, U32(0, 1), U32(255, XLogSegSize - 1)}
LogposSegs == {U32Zero, U32(0, 1), U32(0, 9), U32(0, 253), U32(0, 254),
               U32(0, 255), U32(0, 256), U32(0, 257), U32(1, 0),
               U32(255, XLogSegSize - 1)}

\* one segment file in the archive directory, or one in inprogress/
LogposInit ==
    /\ \E l \in LogposLogs, n \in LogposSegs :
         LET name == XLogFileName(U32Of(1), l, n) IN
         \/ /\ archive = (name :> FullFile)
            /\ inprogress = EmptyDir
         \/ /\ archive = EmptyDir
            /\ inprogress = (name :> RegFile(HalfSeg))
    /\ inprogdir = "dir"
    /\ pc = "start"
    /\ exitcode = -1
    /\ diag = "none"
    /\ run = 1
    /\ nframes = 0
    /\ MemInit
    /\ conns = <<>>
    /\ sentpos = NoName
    /\ savemade = NoName
    /\ passed = FALSE
    /\ rolled = {}
    /\ published = {}
    /\ opened = {}
    /\ lastmsg = NoMsg
    /\ paysum = 0
    /\ rollops = <<>>
    /\ stream = NoStream

LogposNext ==
    \/ EnsureInprogress
    \/ ScanInprogress
    \/ SavePartial
    \/ ScanArchive
    \/ Kill
    \/ Restart

LogposSpec == LogposInit /\ [][LogposNext]_vars

\* (N + 1) * S is 2^32 or more: N is 255 or more
NextOverflows(seg) == seg.hi > 0 \/ seg.lo + 1 >= HiRange

\* the position text pos reads as log number l and low half off
ReadsAs(pos, l, off) ==
    LET s == ScanPosition(pos) IN
    s.n = 2 /\ s.uxlogid = l /\ s.uxrecoff = off

\* C30 as stated: the position after the largest archive name (T,L,N) is
\* (L, (N+1)*S), and (L+1, 0) exactly when (N+1)*S does not fit in 32 bits.
C30_NextSegment_Original ==
    [][(pc = "scan_archive" /\ pc' = "connect")
          => LET f == XLogFromFileName(LargestSegName(archive)) IN
             IF NextOverflows(f.seg)
             THEN ReadsAs(current_xlog', U32Inc(f.log), U32Zero)
             ELSE ReadsAs(current_xlog', f.log, U32(f.seg.lo + 1, 0))]_vars

\* C30: the position after the largest archive name (T,L,N) is
\* (L, (N+1)*S) when N < 254 and ((L+1) mod 2^32, 0) when N >= 254, so the
\* low half printed there is below 2^32 without reduction; the position of a
\* partial file (T,L,N) is (L, (N mod 256)*S), which is N*S only for N below
\* 256.
C30_NextSegment ==
    [][/\ (pc = "scan_archive" /\ pc' = "connect")
          => LET f == XLogFromFileName(LargestSegName(archive)) IN
             IF f.seg.hi = 0 /\ f.seg.lo < 254
             THEN ReadsAs(current_xlog', f.log, U32(f.seg.lo + 1, 0))
             ELSE ReadsAs(current_xlog', U32Inc(f.log), U32Zero)
       /\ (pc = "save_rename" /\ pc' = "connect")
          => LET f == XLogFromFileName(filename) IN
             ReadsAs(current_xlog', f.log, U32(f.seg.lo % 256, 0))]_vars

\* the archive ends with segment 254 of log 0: the session resumes at 1/0
C30_Witness ==
    /\ pc = "connect"
    /\ archive = (SegName(1, 0, 254) :> FullFile)
    /\ inprogress = EmptyDir
    /\ current_xlog = <<"1", "/", "0">>

\* the name of the segment file a message is addressed to
MsgSegName(m) == WalfileName(timeline, m.startpoint)

\* C31: every message whose payload is written to the open segment file
\* starts inside that segment: its log id and segment number are those of
\* the file.
C31_FramesInsideSegment ==
    [][(pc = "write" /\ pc' \in {"recv", "unlink_passed"})
          => MsgSegName(copybuf) = current_walfile_name]_vars

\* C32: the first segment file a session creates is the file of the segment
\* of the position sent in START_REPLICATION; a first message that starts
\* another segment ends the process with exit code 1 and no file created.
C32_StartsWhereAsked ==
    [][/\ (/\ MessageArrives
           /\ ~Malformed(lastmsg')
           /\ walfile = -1
           /\ MsgOffset(lastmsg') = 0
           /\ ~ReadsAs(sentpos, lastmsg'.startpoint.xlogid,
                       U32(U32DivSeg(lastmsg'.startpoint.xrecoff), 0)))
          => (pc' = "exited" /\ exitcode' = 1 /\ UNCHANGED fsVars)
       /\ (pc = "open" /\ walfile = -1 /\ pc' = "write")
          => ReadsAs(sentpos, XLogFromFileName(current_walfile_name').log,
                     U32MulSeg(XLogFromFileName(current_walfile_name').seg))]_vars

\* the name of the segment after the one named n, on the same timeline
SuccessorName(n) ==
    LET f == XLogFromFileName(n)
        s == NextLogSeg(f.log, f.seg)
    IN  XLogFileName(f.tli, s.log, s.seg)

\* C33: the segment file opened at a rollover is the file of the segment
\* that follows the one just renamed into the archive directory.
C33_ConsecutiveSegments ==
    [][(pc = "open" /\ walfile > -1 /\ pc' = "write")
          => current_walfile_name' = SuccessorName(current_walfile_name)]_vars

\* C34: the rename of a completed segment into the archive directory never
\* replaces a file that is already there under the same name.
C34_NeverReplaced ==
    [][(pc = "rename" /\ pc' = "open")
          => current_walfile_name \notin DOMAIN archive]_vars

\* ------------------------------------------------------------------------
\* A session that is about to write past the end of its segment
\* ------------------------------------------------------------------------

\* write positions of the open file when the specification starts
OverrunPositions == {HalfSeg, XLogSegSize - 1}

\* A session that was asked to resume at segment 9 has received one message,
\* at the start of that segment, created 000000010000000000000009 for it and
\* written its payload, and waits for the next message; the startup found
\* the archive at segment 8 and inprogress/ empty, or holding a whole-size
\* file of segment 9, which it saved.
OverrunInit ==
    /\ archive = (SegName(1, 0, 8) :> FullFile)
    /\ inprogdir = "dir"
    /\ pc = "recv"
    /\ exitcode = -1
    /\ diag = "none"
    /\ run = 1
    /\ nframes = 1
    /\ current_xlog = <<"0", "/", "9", "0", "0", "0", "0", "0", "0">>
    /\ sentpos = <<"0", "/", "9", "0", "0", "0", "0", "0", "0">>
    /\ timeline = 1
    /\ current_walfile_name = Partial9
    /\ walfile = 3
    /\ copybuf = NoFrame
    /\ conns = <<ConnKind(TRUE)>>
    /\ passed = FALSE
    /\ rolled = {}
    /\ published = {}
    /\ opened = {[name |-> Partial9, tli |-> 1,
                  startpoint |-> [xlogid |-> U32Zero, xrecoff |-> U32(9, 0)]]}
    /\ rollops = <<"open", "write">>
    /\ stream = NoStream
    /\ \E pos \in OverrunPositions :
         /\ walpos = pos
         /\ paysum = pos
         /\ lastmsg = [r |-> STREAMING_HEADER_SIZE + pos, tag |-> "w",
                       startpoint |-> [xlogid |-> U32Zero,
                                       xrecoff |-> U32(9, 0)],
                       status |-> "none"]
         /\ \/ /\ inprogress = (Partial9 :> RegFile(pos))
               /\ filename = NoName
               /\ remove_when_passed_name = NoName
               /\ remove_when_passed_size = Exactly(0)
               /\ savemade = NoName
            \/ /\ inprogress = (Partial9 :> RegFile(pos))
                     @@ ((Partial9 \o SaveSuffix) :> RegFile(XLogSegSize))
               /\ filename = Partial9
               /\ remove_when_passed_name = Partial9 \o SaveSuffix
               /\ remove_when_passed_size = Exactly(XLogSegSize)
               /\ savemade = [name |-> Partial9 \o SaveSuffix,
                              size |-> Exactly(XLogSegSize)]

OverrunNext ==
    \/ EnsureInprogress
    \/ ScanInprogress
    \/ SavePartial
    \/ ScanArchive
    \/ ConnectReplication
    \/ IdentifySystem
    \/ StartStreaming
    \/ RecvData
    \/ RecvError
    \/ RecvEnd
    \/ GetResult
    \/ EndStreaming
    \/ FsyncWalfile
    \/ CloseWalfile
    \/ UnlinkAtRollover
    \/ rename_current_walfile
    \/ open_walfile
    \/ WriteData
    \/ UnlinkWhenPassed
    \/ Kill
    \/ Restart

OverrunSpec == OverrunInit /\ [][OverrunNext]_vars

\* C35: once the open segment file is longer than a segment, every message
\* that arrives ends the process with exit code 1 and changes no file (the
\* size test of the rollover fails for an offset of 0, the offset test for
\* any other), and no file longer than a segment is ever in the archive
\* directory.
C35_OverrunNotPublished ==
    /\ [][(MessageArrives /\ walfile > -1 /\ walpos > XLogSegSize)
             => (/\ pc' = "exited"
                 /\ exitcode' = 1
                 /\ ~Malformed(lastmsg')
                       => diag' = (IF MsgOffset(lastmsg') = 0
                                   THEN "short_segment" ELSE "misaligned")
                 /\ UNCHANGED fsVars)]_vars
    /\ [](\A n \in DOMAIN archive : archive[n].size.max <= XLogSegSize)
    /\ [](\A p \in published : p.size.max <= XLogSegSize)

\* a message at the start of segment 10 was refused because the file of
\* segment 9 had been written past its end
C35_Witness ==
    /\ pc = "exited"
    /\ exitcode = 1
    /\ diag = "short_segment"
    /\ run = 1
    /\ nframes = 3
    /\ inprogress[Partial9].size = Exactly(XLogSegSize - 1 + HalfSeg)
    /\ Partial9 \notin DOMAIN archive

\* the positions of a run that has not yet decided where to resume
StartupPcs == {"start", "scan"}

\* C36: a startup that finds a .save file in inprogress/ ends in the scanner
\* with exit code 1, before any connection is opened and without renaming,
\* creating or deleting a file; the only .save file a run can have next to
\* it after its scanner is the one that run made itself.  So a .save file
\* left behind by a run, however the run ended, stops every later startup.
C36_SaveBlocksStartup ==
    /\ [][(pc \in StartupPcs /\ SaveEntries(inprogress) # {})
             => (/\ pc' \in StartupPcs \cup {"exited"}
                 /\ (pc = "scan" /\ exitcode' # 137)
                       => (/\ pc' = "exited"
                           /\ exitcode' = 1
                           /\ diag' \in {"stale_save", "more_than_one_file",
                                         "non_file_entry", "opendir_failed",
                                         "stat_failed"})
                 /\ conns = <<>>
                 /\ conns' = <<>>
                 /\ UNCHANGED fsVars)]_vars
    /\ []((pc \notin StartupPcs \cup {"exited"} /\ SaveEntries(inprogress) # {})
             => (/\ savemade # NoName
                 /\ SaveEntries(inprogress) = {savemade.name}))

\* the first run saved the partial segment and ended before it streamed; the
\* second startup has been refused
C36_Witness ==
    /\ run = 2
    /\ pc = "exited"
    /\ exitcode = 1
    /\ diag = "stale_save"
    /\ conns = <<>>
    /\ archive = EmptyDir
    /\ opened = {}
    /\ DOMAIN inprogress = {Partial9 \o SaveSuffix}

\* ------------------------------------------------------------------------
\* Runs that are killed while they stream, with the history of the messages
\* ------------------------------------------------------------------------

\* the archives a run that is killed and started again is followed from: an
\* empty one and one filled up to segment 8 (the other archives of InitDirs
\* differ in what the scanner reads in them, not in the receive loop)
CrashArchives == {EmptyDir, SegName(1, 0, 8) :> FullFile}

CrashInit == InitBut /\ stream = Recording /\ archive \in CrashArchives

CrashSpec == CrashInit /\ [][Next]_vars

\* the first of a set of 24-hex names in the order of their characters
LowestName(names) ==
    CHOOSE n \in names : \A m \in names \ {n} : LexLess(n, m)

\* C37: when the previous run was killed inside the receive loop after it
\* had created a file, every message accepted so far started where the one
\* before it ended (the first of a run at the position sent), and the scanner
\* accepts the startup, the resume position is the start of the lowest
\* segment a message was accepted for that is not in the archive directory;
\* that segment is not beyond the one after the largest archived name.
C37_NoGapAcrossCrash ==
    [][(/\ pc \in {"scan_archive", "save_rename"}
        /\ pc' = "connect"
        /\ stream.killed
        /\ stream.killrun = run - 1
        /\ stream.contiguous)
          => LET missing == stream.segs \ DOMAIN archive IN
             /\ missing # {}
             /\ current_xlog' = SegmentStartText(LowestName(missing))
             /\ SegEntries(archive) # {}
                   => ~LexLess(SuccessorName(LargestSegName(archive)),
                               LowestName(missing))]_vars

\* the first run was killed between the rename of segment 9 and the creation
\* of the file of segment 10: the second run resumes at segment 10
C37_Witness ==
    /\ run = 2
    /\ pc = "connect"
    /\ stream.killed
    /\ stream.killrun = 1
    /\ stream.contiguous
    /\ stream.segs = {Partial9, SegName(1, 0, 10)}
    /\ Partial9 \in DOMAIN archive
    /\ inprogress = EmptyDir
    /\ current_xlog = <<"0", "/", "A", "0", "0", "0", "0", "0", "0">>

\* ------------------------------------------------------------------------
\* Progress: a running process goes on to its next file operation
\* ------------------------------------------------------------------------

\* the process is not held up between the arrival of a message and the end
\* of the file operations the message leads to; when the next message comes
\* is up to the server
LiveSpec ==
    /\ Spec
    /\ WF_vars(FsyncWalfile)
    /\ WF_vars(CloseWalfile)
    /\ WF_vars(UnlinkAtRollover)
    /\ WF_vars(rename_current_walfile)
    /\ WF_vars(open_walfile)
    /\ WF_vars(WriteData)
    /\ WF_vars(UnlinkWhenPassed)

\* the segment files a session of the model can have open
StreamedNames == { SegName(1, p[1], p[2]) : p \in FramePositions }

\* the file named n was renamed into the archive directory by this run
Archived(n) == \E p \in published : p.name = n /\ p.run = run

\* C38: a segment file that holds a whole segment is taken to the rollover by
\* the first message of a following segment (offset 0), and once that message
\* has passed the size check the file is renamed into the archive directory
\* unless a file operation fails or the process is killed; a file enters the
\* archive directory in no other step, so not before that message.
C38_ArchivingProgress ==
    /\ \A n \in StreamedNames :
          (n \in rolled) ~> (Archived(n) \/ pc = "exited")
    /\ [][(/\ MessageArrives
           /\ ~Malformed(lastmsg')
           /\ MsgOffset(lastmsg') = 0
           /\ walfile > -1
           /\ walpos = XLogSegSize)
             => (pc' = "fsync" /\ current_walfile_name \in rolled')]_vars
    /\ [][(archive' # archive)
             => (/\ pc = "rename"
                 /\ current_walfile_name \in rolled
                 /\ MsgOffset(lastmsg) = 0
                 /\ inprogress[current_walfile_name].size = Exactly(XLogSegSize)
                 /\ archive' = (current_walfile_name
                                   :> inprogress[current_walfile_name])
                               @@ archive
                 /\ Archived(current_walfile_name)')]_vars

\* segment 9 was received in two messages and renamed at the first message
\* of segment 10, whose file is being written
C38_Witness ==
    /\ pc = "write"
    /\ run = 1
    /\ nframes = 3
    /\ rolled = {Partial9}
    /\ Archived(Partial9)
    /\ Partial9 \in DOMAIN archive
    /\ archive[Partial9].size = Exactly(XLogSegSize)
    /\ current_walfile_name = SegName(1, 0, 10)

\* the .save file this run made is still in inprogress/
SaveThere == savemade # NoName /\ savemade.name \in DOMAIN inprogress

\* C39: in a run that saved a partial segment, once the write offset has
\* passed the saved size, or the first message of a following segment has
\* passed the size check, the .save file is deleted unless a file operation
\* fails or the process is killed; it is gone when the rollover renames the
\* segment file, and from its deletion on the run attempts no unlink.
C39_RetirementProgress ==
    /\ (SaveThere /\ (passed \/ rolled # {})) ~> (~SaveThere \/ pc = "exited")
    /\ []((savemade # NoName /\ (pc = "rename" \/ (pc = "open" /\ walfile > -1)))
             => (~SaveThere /\ remove_when_passed_name = NoName))
    /\ [][(pc \in LoopPcs /\ savemade # NoName /\ ~SaveThere)
             => (/\ remove_when_passed_name = NoName
                 /\ remove_when_passed_name' = NoName
                 /\ pc' \notin {"unlink_rollover", "unlink_passed"}
                 /\ Len(rollops') > Len(rollops)
                       => rollops'[Len(rollops')] # "unlink"
                 /\ DOMAIN inprogress \subseteq
                       DOMAIN inprogress' \cup {current_walfile_name})]_vars

\* a whole-size .save file was deleted at the rollover, the segment received
\* again has been renamed and the next file is being written
C39_Witness ==
    /\ pc = "write"
    /\ run = 1
    /\ savemade # NoName
    /\ savemade.size = Exactly(XLogSegSize)
    /\ ~SaveThere
    /\ ~passed
    /\ rollops = <<"fsync", "close", "unlink", "rename", "open">>
    /\ Archived(Partial9)

====
